---- MODULE Spec2Model ----
(***************************************************************************)
(* Verification model of the Pentagram cognitive core (omega_layer):       *)
(*   - MetabolicKernel.process        (kernel/metabolic_kernel.py)          *)
(*   - TensionAnalyzer.analyze        (kernel/tension_analyzer.py)          *)
(*   - IdentityTopology               (identity/topology.py)                *)
(* Scores and thresholds are integers in hundredths (0.2 is 20).            *)
(* Strings that the code compares, sorts, splits or searches are sequences  *)
(* of character codes.                                                      *)
(***************************************************************************)
EXTENDS Integers, Sequences, FiniteSets, TLC

VARIABLES
    \* ---- IdentityTopology (identity/topology.py) ----
    state,                          \* self._state: NotLoaded or an IdentityState
    pending_proposals,              \* self._pending_proposals
    consecutive_repair_failures,    \* self._consecutive_repair_failures
    ret,                            \* the value returned by the latest call
    drift_log,                      \* needs_repair of every check_drift report so far
    \* ---- MetabolicKernel (kernel/metabolic_kernel.py) ----
    vertices,                       \* self._vertices: the registered vertex names
    llm_provider,                   \* self._llm_provider is configured
    pc,                             \* position of process()
    behaviour,                      \* what each vertex's vote() does in this cycle
    parallel_tasks,                 \* the Phase-1 tasks: name -> task state
    awaited,                        \* how many of the tasks the await loop has joined
    votes,                          \* votes: dict name -> VertexVote (in insertion order)
    timings,                        \* timings: the stage keys recorded so far
    errors,                         \* errors: list of vertex names
    tensions,                       \* tensions returned by analyze
    synthesis,                      \* the KernelSynthesis, or NoSynthesis
    result,                         \* the PentagramResult returned, or NoResult
    orchestra_ctx,                  \* the context Orchestra's vote() was called with
    \* ---- process() calls running concurrently on one MetabolicKernel ----
    cycles,                         \* the locals of each call: experience -> frame
    \* ---- apply_change calls made from several threads on one IdentityTopology ----
    threads,                        \* the locals of each thread's call: thread -> frame
    \* ---- TensionAnalyzer used on its own ----
    ta_votes,                       \* the votes dict handed to analyze, in order
    ta_out,                         \* what analyze returned, or NotAnalyzed
    \* ---- DevelopmentMonitor (development/monitor.py) ----
    window_size,                    \* the maxlen of self._snapshots
    snapshots,                      \* self._snapshots: the sliding window
    milestones,                     \* self._milestones
    cycle_count,                    \* self._cycle_count
    mon_ret,                        \* the value returned by the latest call
    cycle_log,                      \* every snapshot record_cycle has built, by cycle
    \* ---- one vertex or helper called on its own ----
    call,                           \* the latest call: its inputs and what it returned
    \* ---- StandaloneDriftDetector (identity/drift_detector.py) ----
    recent_cycles,                  \* self._recent_cycles: the window of results
    check_count                     \* self._check_count

topoVars == <<state, pending_proposals, consecutive_repair_failures, ret, drift_log>>
kernelVars == <<vertices, llm_provider, pc, behaviour, parallel_tasks, awaited,
                votes, timings, errors, tensions, synthesis, result, orchestra_ctx>>
taVars == <<ta_votes, ta_out>>
monVars == <<window_size, snapshots, milestones, cycle_count, mon_ret, cycle_log>>
detVars == <<recent_cycles, check_count>>
vars == <<topoVars, kernelVars, taVars, monVars, cycles, threads, call, detVars>>

\* bounds of the model
MaxPending == 1
MaxHistory == 2
MaxChecks == 4
MaxVotes == 4
MaxCycles == 4
TrendWindow == 20
MaxTrendCycles == 21
MaxEventful == 2
MaxWindowCycles == 101

(***************************************************************************)
(* Strings as sequences of character codes                                 *)
(***************************************************************************)
LowerCase == <<"a","b","c","d","e","f","g","h","i","j","k","l","m",
               "n","o","p","q","r","s","t","u","v","w","x","y","z">>
UpperCase == <<"A","B","C","D","E","F","G","H","I","J","K","L","M",
               "N","O","P","Q","R","S","T","U","V","W","X","Y","Z">>
Digits == <<"0","1","2","3","4","5","6","7","8","9">>

IndexOf(seq, c) == CHOOSE i \in 1..Len(seq) : seq[i] = c

\* ord(c) of one character
Ord(c) ==
    IF \E i \in 1..Len(LowerCase) : LowerCase[i] = c THEN 96 + IndexOf(LowerCase, c)
    ELSE IF \E i \in 1..Len(UpperCase) : UpperCase[i] = c THEN 64 + IndexOf(UpperCase, c)
    ELSE IF \E i \in 1..Len(Digits) : Digits[i] = c THEN 47 + IndexOf(Digits, c)
    ELSE IF c = " " THEN 32
    ELSE IF c = "." THEN 46
    ELSE IF c = ":" THEN 58
    ELSE IF c = "," THEN 44
    ELSE IF c = "{" THEN 123
    ELSE IF c = "}" THEN 125
    ELSE IF c = "[" THEN 91
    ELSE IF c = "]" THEN 93
    ELSE 95   \* "_"

\* a string literal, given character by character
Str(cs) == [i \in 1..Len(cs) |-> Ord(cs[i])]

\* str.lower() on one character and on a string
LowerChar(c) == IF c >= 65 /\ c <= 90 THEN c + 32 ELSE c
Lower(s) == [i \in 1..Len(s) |-> LowerChar(s[i])]

\* Python's `a in b` on strings
IsSubstring(a, b) ==
    \E i \in 0..(Len(b) - Len(a)) : SubSeq(b, i + 1, i + Len(a)) = a

\* Python's `a < b` on strings: lexicographic by code point
RECURSIVE StrLess(_, _)
StrLess(a, b) ==
    IF b = <<>> THEN FALSE
    ELSE IF a = <<>> THEN TRUE
    ELSE IF Head(a) # Head(b) THEN Head(a) < Head(b)
    ELSE StrLess(Tail(a), Tail(b))

\* str.split(sep) with a one-character separator
RECURSIVE Split(_, _)
Split(s, sep) ==
    IF \A i \in 1..Len(s) : s[i] # sep THEN <<s>>
    ELSE LET i == CHOOSE k \in 1..Len(s) : s[k] = sep /\ \A j \in 1..(k - 1) : s[j] # sep
         IN <<SubSeq(s, 1, i - 1)>> \o Split(SubSeq(s, i + 1, Len(s)), sep)

\* sep.join(parts)
RECURSIVE Join(_, _)
Join(parts, sep) ==
    IF Len(parts) = 0 THEN <<>>
    ELSE IF Len(parts) = 1 THEN parts[1]
    ELSE parts[1] \o <<sep>> \o Join(Tail(parts), sep)

IsDigits(s) == Len(s) > 0 /\ \A i \in 1..Len(s) : s[i] >= 48 /\ s[i] <= 57

\* int(s) for a string of decimal digits
RECURSIVE ParseInt(_)
ParseInt(s) ==
    IF Len(s) = 0 THEN 0
    ELSE 10 * ParseInt(SubSeq(s, 1, Len(s) - 1)) + (s[Len(s)] - 48)

\* str(n) for n >= 0
RECURSIVE FormatInt(_)
FormatInt(n) ==
    IF n < 10 THEN <<48 + n>>
    ELSE FormatInt(n \div 10) \o <<48 + (n % 10)>>

Max(a, b) == IF a >= b THEN a ELSE b
Min(a, b) == IF a <= b THEN a ELSE b
Abs(x) == IF x < 0 THEN 0 - x ELSE x

(***************************************************************************)
(* identity/schemas.py                                                     *)
(***************************************************************************)
\* RepairProtocol defaults, in hundredths
deviation_threshold == 20
coherence_threshold == 80
value_misalignment_threshold == 15
relationship_integrity_threshold == 90
alert_ryan_after_failures == 3

RepairProtocol ==
    [deviation_threshold |-> deviation_threshold,
     coherence_threshold |-> coherence_threshold,
     value_misalignment_threshold |-> value_misalignment_threshold,
     relationship_integrity_threshold |-> relationship_integrity_threshold,
     alert_ryan_after_failures |-> alert_ryan_after_failures]

\* self._state = None
NotLoaded ==
    [loaded |-> FALSE, version |-> <<>>, invariants |-> <<>>, flexible_regions |-> <<>>,
     repair_protocol |-> RepairProtocol, update_history |-> <<>>, last_updated |-> 0]

\* Scar documents: topology.invariants holds entries shaped {name, value, ...} and
\* the plain keys 'description' and 'count'; topology.flexible_regions holds regions.
s_core_purpose == Str(<<"c","o","r","e","_","p","u","r","p","o","s","e">>)
s_Core_Purpose == Str(<<"C","o","r","e"," ","P","u","r","p","o","s","e">>)
s_ryan_bond == Str(<<"r","y","a","n","_","b","o","n","d">>)
s_Ryan_Bond == Str(<<"R","y","a","n"," ","B","o","n","d">>)
s_description == Str(<<"d","e","s","c","r","i","p","t","i","o","n">>)
s_learned_knowledge == Str(<<"l","e","a","r","n","e","d","_","k","n","o","w","l","e","d","g","e">>)
s_communication_style == Str(<<"c","o","m","m","u","n","i","c","a","t","i","o","n","_","s","t","y","l","e">>)
s_purpose == Str(<<"p","u","r","p","o","s","e">>)
s_frozen == Str(<<"f","r","o","z","e","n">>)
s_bond == Str(<<"b","o","n","d">>)
s_totally_new_region == Str(<<"t","o","t","a","l","l","y","_","n","e","w","_","r","e","g","i","o","n">>)

RawInvariants ==
    {[key |-> s_core_purpose, shaped |-> TRUE, name |-> s_Core_Purpose],
     [key |-> s_ryan_bond, shaped |-> TRUE, name |-> s_Ryan_Bond],
     [key |-> s_description, shaped |-> FALSE, name |-> <<>>]}

ScarDocs ==
    {[version |-> Str(<<"1",".","0",".","0">>),
      invariants |-> RawInvariants,
      flexible_regions |-> {[key |-> s_learned_knowledge, mutable |-> TRUE],
                            [key |-> s_communication_style, mutable |-> TRUE]}],
     [version |-> Str(<<"1",".","0",".","8">>),
      invariants |-> RawInvariants,
      flexible_regions |-> {[key |-> s_learned_knowledge, mutable |-> TRUE],
                            [key |-> s_purpose, mutable |-> TRUE],
                            [key |-> s_frozen, mutable |-> FALSE],
                            [key |-> s_bond, mutable |-> FALSE]}]}

\* IdentityState.from_scar_json
from_scar_json(doc) ==
    LET shaped == {e \in doc.invariants : e.shaped}
    IN [loaded |-> TRUE,
        version |-> doc.version,
        invariants |-> [k \in {e.key : e \in shaped} |->
                           [name |-> (CHOOSE e \in shaped : e.key = k).name]],
        flexible_regions |-> [k \in {e.key : e \in doc.flexible_regions} |->
                           [mutable |-> (CHOOSE e \in doc.flexible_regions : e.key = k).mutable]],
        repair_protocol |-> RepairProtocol,
        update_history |-> <<>>,
        last_updated |-> 0]

\* ProposedChange values offered by callers
Regions ==
    {s_learned_knowledge, s_Core_Purpose, s_purpose, s_frozen, s_bond,
     s_totally_new_region, <<>>}
Proposals == {[region |-> r, field |-> "architecture", proposing_vertex |-> "garden"] : r \in Regions}

(***************************************************************************)
(* identity/topology.py                                                    *)
(***************************************************************************)
\* a loop over invariants that compares the region with the keys only
AffectedInvariantsByKey(st, proposal) ==
    {key \in DOMAIN st.invariants : IsSubstring(Lower(proposal.region), Lower(key))}

\* the invariants a proposal touches (validate_change, the loop over invariants)
AffectedInvariants(st, proposal) ==
    {key \in DOMAIN st.invariants :
        \/ IsSubstring(Lower(proposal.region), Lower(key))
        \/ IsSubstring(Lower(proposal.region), Lower(st.invariants[key].name))}

\* a validate_change that does not look at the mutable flag
RegionIsMutableAlways(st, region) == TRUE

\* the mutable test of a flexible region (validate_change, `if not flex.mutable`)
RegionIsMutable(st, region) == st.flexible_regions[region].mutable

ValidationResult(approved, affected, requires, status) ==
    [approved |-> approved, affected_invariants |-> affected,
     requires_ryan_approval |-> requires, status |-> status]

\* IdentityTopology.validate_change
validate_change(st, proposal) ==
    IF ~st.loaded THEN ValidationResult(FALSE, {}, FALSE, "rejected")
    ELSE IF proposal.region \in DOMAIN st.flexible_regions THEN
        IF ~RegionIsMutable(st, proposal.region)
        THEN ValidationResult(FALSE, {}, FALSE, "rejected")
        ELSE ValidationResult(TRUE, {}, FALSE, "approved")
    ELSE IF AffectedInvariants(st, proposal) # {}
        THEN ValidationResult(FALSE, AffectedInvariants(st, proposal), FALSE, "rejected")
    ELSE ValidationResult(FALSE, {}, TRUE, "pending")

\* a bump that writes the segment back as it was read
BumpLastForgotten(n) == n

\* the version bump of apply_change: split on ".", add one to the last part, join
BumpLast(n) == n + 1
BumpVersion(version) ==
    LET parts == Split(version, 46)
        last == parts[Len(parts)]
    IN Join([parts EXCEPT ![Len(parts)] = FormatInt(BumpLast(ParseInt(last)))], 46)

LastSegment(version) == LET parts == Split(version, 46) IN parts[Len(parts)]

outsideDetector == <<kernelVars, taVars, monVars, cycles, threads, call>>
outsideTopology == <<outsideDetector, detVars>>

\* IdentityTopology.load
Load(doc) ==
    /\ state' = from_scar_json(doc)
    /\ ret' = [op |-> "load"]
    /\ UNCHANGED <<pending_proposals, consecutive_repair_failures, drift_log>>
    /\ UNCHANGED outsideTopology

\* IdentityTopology.validate_change, called directly
ValidateChange(p) ==
    /\ ret' = [op |-> "validate_change", proposal |-> p, result |-> validate_change(state, p)]
    /\ UNCHANGED <<state, pending_proposals, consecutive_repair_failures, drift_log>>
    /\ UNCHANGED outsideTopology

\* a propose_change that queues approved proposals only
QueuesApprovedOnly(res) == res.approved

\* whether propose_change queues the proposal
Queues(res) == res.approved \/ res.requires_ryan_approval

\* IdentityTopology.propose_change
ProposeChange(p) ==
    LET res == validate_change(state, p)
    IN /\ Queues(res) => Len(pending_proposals) < MaxPending
       /\ pending_proposals' = IF Queues(res) THEN Append(pending_proposals, p)
                               ELSE pending_proposals
       /\ ret' = [op |-> "propose_change", proposal |-> p, result |-> res]
       /\ UNCHANGED <<state, consecutive_repair_failures, drift_log>>
       /\ UNCHANGED outsideTopology

\* an apply_change that also writes into the region it was given
apply_state_writing_region(st, p) ==
    [st EXCEPT
        !.update_history = Append(@, [timestamp |-> Len(@) + 1,
                                      region |-> p.region,
                                      field |-> p.field,
                                      proposing_vertex |-> p.proposing_vertex]),
        !.version = BumpVersion(@),
        !.last_updated = Len(st.update_history) + 1,
        !.flexible_regions[p.region].mutable = ~@]

\* the state a successful apply_change leaves: the record appended, the version
\* bumped, last_updated set
apply_state(st, p) ==
    [st EXCEPT
        !.update_history = Append(@, [timestamp |-> Len(@) + 1,
                                      region |-> p.region,
                                      field |-> p.field,
                                      proposing_vertex |-> p.proposing_vertex]),
        !.version = BumpVersion(@),
        !.last_updated = Len(st.update_history) + 1]

\* an apply_change that also asks for the region to be mutable
apply_accepts_mutable(st, p) ==
    /\ st.loaded
    /\ p.region \in DOMAIN st.flexible_regions
    /\ st.flexible_regions[p.region].mutable

\* the two tests apply_change makes before it writes: an identity is loaded and
\* the region is a key of flexible_regions
apply_accepts(st, p) ==
    /\ st.loaded
    /\ p.region \in DOMAIN st.flexible_regions

\* IdentityTopology.apply_change
ApplyChange(p) ==
    /\ UNCHANGED outsideTopology
    /\ IF ~apply_accepts(state, p)
       THEN /\ ret' = [op |-> "apply_change", proposal |-> p, success |-> FALSE, raised |-> FALSE]
            /\ UNCHANGED <<state, pending_proposals, consecutive_repair_failures, drift_log>>
       ELSE IF ~IsDigits(LastSegment(state.version))
       THEN \* int(parts[-1]) raises ValueError after the record was appended
            /\ Len(state.update_history) < MaxHistory
            /\ state' = [state EXCEPT
                   !.update_history = Append(@, [timestamp |-> Len(@) + 1,
                                                 region |-> p.region,
                                                 field |-> p.field,
                                                 proposing_vertex |-> p.proposing_vertex])]
            /\ ret' = [op |-> "apply_change", proposal |-> p, success |-> FALSE, raised |-> TRUE]
            /\ UNCHANGED <<pending_proposals, consecutive_repair_failures, drift_log>>
       ELSE /\ Len(state.update_history) < MaxHistory
            /\ state' = apply_state(state, p)
            /\ ret' = [op |-> "apply_change", proposal |-> p, success |-> TRUE, raised |-> FALSE]
            /\ UNCHANGED <<pending_proposals, consecutive_repair_failures, drift_log>>

\* IdentityTopology.clear_pending
ClearPending ==
    /\ ret' = [op |-> "clear_pending", count |-> Len(pending_proposals)]
    /\ pending_proposals' = <<>>
    /\ UNCHANGED <<state, consecutive_repair_failures, drift_log>>
    /\ UNCHANGED outsideTopology

\* behavioural signals handed to check_drift, in hundredths
Signals ==
    [invariant_alignment : {50, 80, 100},
     coherence : {60, 80, 100},
     value_misalignment : {0, 15, 30, 130},
     relationship_integrity : {70, 90, 100}]

\* the four overshoot terms of check_drift's `deviation = max(...)`
InvariantOvershoot(repair, inv_alignment) ==
    IF inv_alignment < (100 - repair.deviation_threshold)
    THEN Max(0, repair.deviation_threshold - (100 - inv_alignment))
    ELSE 0
CoherenceOvershoot(repair, coherence) ==
    IF coherence < repair.coherence_threshold
    THEN Max(0, repair.coherence_threshold - coherence)
    ELSE 0
ValueOvershoot(repair, value_misalignment) ==
    Max(0, value_misalignment - repair.value_misalignment_threshold)
RelationshipOvershoot(repair, rel_integrity) ==
    IF rel_integrity < repair.relationship_integrity_threshold
    THEN Max(0, repair.relationship_integrity_threshold - rel_integrity)
    ELSE 0

Deviation(repair, sig) ==
    Max(Max(InvariantOvershoot(repair, sig.invariant_alignment),
            CoherenceOvershoot(repair, sig.coherence)),
        Max(ValueOvershoot(repair, sig.value_misalignment),
            RelationshipOvershoot(repair, sig.relationship_integrity)))

\* check_drift's `affected` list
Affected(repair, sig) ==
    (IF sig.invariant_alignment < (100 - repair.deviation_threshold)
     THEN <<"invariant_alignment">> ELSE <<>>)
    \o (IF sig.coherence < repair.coherence_threshold
        THEN <<"identity_coherence">> ELSE <<>>)
    \o (IF sig.value_misalignment > repair.value_misalignment_threshold
        THEN <<"value_alignment">> ELSE <<>>)
    \o (IF sig.relationship_integrity < repair.relationship_integrity_threshold
        THEN <<"relationship_integrity">> ELSE <<>>)

\* the spelling of the names check_drift puts in `affected`
s_invariant_alignment ==
    Str(<<"i","n","v","a","r","i","a","n","t","_","a","l","i","g","n","m","e","n","t">>)
s_identity_coherence ==
    Str(<<"i","d","e","n","t","i","t","y","_","c","o","h","e","r","e","n","c","e">>)
s_value_alignment ==
    Str(<<"v","a","l","u","e","_","a","l","i","g","n","m","e","n","t">>)
s_relationship_integrity ==
    Str(<<"r","e","l","a","t","i","o","n","s","h","i","p","_","i","n","t","e","g","r","i","t","y">>)
AffectedSpelling(a) ==
    CASE a = "invariant_alignment" -> s_invariant_alignment
      [] a = "identity_coherence" -> s_identity_coherence
      [] a = "value_alignment" -> s_value_alignment
      [] OTHER -> s_relationship_integrity

\* check_drift's repair_suggestions: the invariants whose key contains an affected name
RepairSuggestions(st, affected) ==
    {st.invariants[key].name : key \in
        {k \in DOMAIN st.invariants :
            \E i \in 1..Len(affected) : IsSubstring(AffectedSpelling(affected[i]), Lower(k))}}

\* a report that carries the deviation as computed
DeviationScoreUncapped(deviation) == deviation

\* the report's deviation_score=min(1.0, deviation)
DeviationScore(deviation) == Min(100, deviation)

\* a counter that is never reset
NextFailuresNoReset(failures, needs_repair) ==
    IF needs_repair THEN failures + 1 ELSE failures

\* the update of the consecutive-failure counter
NextFailures(failures, needs_repair) ==
    IF needs_repair THEN failures + 1 ELSE 0

\* alert_ryan
AlertRyan(repair, failures) == failures >= repair.alert_ryan_after_failures

\* IdentityTopology.check_drift
check_drift(sig) ==
    /\ UNCHANGED outsideDetector
    /\ IF ~state.loaded
       THEN /\ ret' = [op |-> "check_drift", signals |-> sig, loaded |-> FALSE,
                       report |-> [deviation_score |-> 0, coherence_score |-> 100,
                                   affected_regions |-> <<>>, repair_suggestions |-> {},
                                   needs_repair |-> FALSE, consecutive_failures |-> 0,
                                   alert_ryan |-> FALSE]]
            /\ UNCHANGED <<state, pending_proposals, consecutive_repair_failures, drift_log>>
       ELSE LET repair == state.repair_protocol
                deviation == Deviation(repair, sig)
                needs_repair == deviation > 0
                affected == Affected(repair, sig)
                failures == NextFailures(consecutive_repair_failures, needs_repair)
            IN /\ Len(drift_log) < MaxChecks
               /\ consecutive_repair_failures' = failures
               /\ drift_log' = Append(drift_log, needs_repair)
               /\ ret' = [op |-> "check_drift", signals |-> sig, loaded |-> TRUE,
                          report |-> [deviation_score |-> DeviationScore(deviation),
                                      coherence_score |-> sig.coherence,
                                      affected_regions |-> affected,
                                      repair_suggestions |->
                                          IF affected # <<>> THEN RepairSuggestions(state, affected)
                                          ELSE {},
                                      needs_repair |-> needs_repair,
                                      consecutive_failures |-> failures,
                                      alert_ryan |-> AlertRyan(repair, failures)]]
               /\ UNCHANGED <<state, pending_proposals>>

\* topology.check_drift(signals), called by anyone but the detector
CheckDrift(sig) ==
    /\ check_drift(sig)
    /\ UNCHANGED detVars

(***************************************************************************)
(* identity/topology.py: apply_change called from several threads.  The    *)
(* method takes no lock; a thread may be switched out between the          *)
(* statements that read self._state.version and the one that writes it.    *)
(***************************************************************************)
Threads == {"t1", "t2"}
IdleThread == [pc |-> "idle", version |-> <<>>]

outsideThreads == <<kernelVars, taVars, monVars, cycles, call, detVars>>

\* apply_change, lines 154-171: the guards pass and the change record is appended
ApplyAppend(t, p) ==
    /\ threads[t].pc = "idle"
    /\ state.loaded
    /\ p.region \in DOMAIN state.flexible_regions
    /\ Len(state.update_history) < MaxHistory
    /\ state' = [state EXCEPT
           !.update_history = Append(@, [timestamp |-> Len(@) + 1,
                                         region |-> p.region,
                                         field |-> p.field,
                                         proposing_vertex |-> p.proposing_vertex])]
    /\ threads' = [threads EXCEPT ![t].pc = "split"]
    /\ UNCHANGED <<pending_proposals, consecutive_repair_failures, ret, drift_log>>
    /\ UNCHANGED outsideThreads

\* apply_change, line 174: parts = self._state.version.split(".")
ApplySplit(t) ==
    /\ threads[t].pc = "split"
    /\ threads' = [threads EXCEPT ![t].pc = "store", ![t].version = state.version]
    /\ UNCHANGED topoVars
    /\ UNCHANGED outsideThreads

\* apply_change, lines 175-184: the bumped version is stored and True returned
ApplyStore(t) ==
    /\ threads[t].pc = "store"
    /\ state' = [state EXCEPT !.version = BumpVersion(threads[t].version),
                              !.last_updated = Len(state.update_history)]
    /\ threads' = [threads EXCEPT ![t] = IdleThread]
    /\ UNCHANGED <<pending_proposals, consecutive_repair_failures, ret, drift_log>>
    /\ UNCHANGED outsideThreads

(***************************************************************************)
(* Python dicts: a sequence of [key, value] entries in insertion order      *)
(***************************************************************************)
DictKeys(d) == {d[i].key : i \in 1..Len(d)}
DictGet(d, k) == d[CHOOSE i \in 1..Len(d) : d[i].key = k].value
DictSet(d, k, v) ==
    IF k \in DictKeys(d)
    THEN [i \in 1..Len(d) |-> IF d[i].key = k THEN [key |-> k, value |-> v] ELSE d[i]]
    ELSE Append(d, [key |-> k, value |-> v])

(***************************************************************************)
(* kernel/schemas.py, vertices/base_vertex.py                              *)
(***************************************************************************)
VertexName == {"ledger", "garden", "mirror", "compass", "orchestra"}

\* VertexVote.score: Field(ge=0.0, le=1.0)
ScoreValid(score) == score >= 0 /\ score <= 100

\* a _build_vote that passes the score on as it is
ClampScoreDropped(score) == score

\* _build_vote: score=max(0.0, min(1.0, score))
ClampScore(score) == Max(0, Min(100, score))

\* BaseVertex._build_error_vote
ErrorVoteScore == 0
build_error_vote(name) ==
    [vertex_name |-> name, score |-> ErrorVoteScore,
     action_proposals |-> <<>>,
     observations |-> <<"vertex_error">>,
     attachments |-> [error |-> TRUE]]

\* vote.attachments.get("error"), the mark of an error vote
IsErrorVote(vote) == "error" \in DOMAIN vote.attachments /\ vote.attachments.error

\* BaseVertex._build_vote; VertexVote(...) raises when a field is invalid, and the
\* vertex's own `except Exception` (or the kernel's _safe_vote) turns that into an
\* error vote
build_vote(name, score, action_proposals, observations, attachments) ==
    IF ScoreValid(ClampScore(score))
    THEN [vertex_name |-> name, score |-> ClampScore(score),
          action_proposals |-> action_proposals,
          observations |-> observations,
          attachments |-> attachments]
    ELSE build_error_vote(name)

(***************************************************************************)
(* vertices/*.py: what one call of vote() does                             *)
(***************************************************************************)
\* scores an LM reply may carry, in hundredths (below 0 and above 1 included)
RawScores == {-20, 30, 50, 130}

\* the behaviour of one vote() call:
\*   "raise": an exception leaves vote() (a vertex without its own handler);
\*   "fail":  an LM, parse or other exception inside the vertex's own try block;
\*   "vote":  it computes a score; flag is Garden's "has pruning recommendations"
\*            and Mirror's "drift_detected"
Raise == [kind |-> "raise", score |-> 0, flag |-> FALSE]
Fail == [kind |-> "fail", score |-> 0, flag |-> FALSE]
Behaviours(name) ==
    {Raise, Fail} \cup
    CASE name = "ledger" -> {[kind |-> "vote", score |-> 100, flag |-> FALSE]}
      [] name = "garden" -> [kind : {"vote"}, score : RawScores, flag : BOOLEAN]
      [] name = "mirror" -> [kind : {"vote"}, score : RawScores, flag : BOOLEAN]
      [] name = "compass" -> [kind : {"vote"}, score : RawScores, flag : {FALSE}]
      [] OTHER -> {[kind |-> "vote", score |-> 50, flag |-> FALSE]}

\* LedgerVertex.vote
LedgerVote(b) ==
    build_vote("ledger", 100, <<"store">>,
               <<"Retrieved memory groups", "Experience queued for storage">>,
               [store_queued |-> TRUE])

\* GardenVertex.vote
GardenVote(b) ==
    build_vote("garden", b.score,
               IF b.flag THEN <<"prune">> ELSE <<>>,
               <<"Detected patterns">>,
               [pruning_recommendations |-> b.flag])

\* MirrorVertex.vote
MirrorVote(b) ==
    build_vote("mirror", b.score,
               IF b.flag THEN <<"identity_repair">> ELSE <<>>,
               (IF b.flag THEN <<"DRIFT DETECTED">> ELSE <<>>) \o <<"Self-reference depth">>,
               [drift_detected |-> b.flag])

\* CompassVertex.vote
CompassVote(b) ==
    build_vote("compass", b.score, <<>>,
               <<"Growth contribution", "Goal alignment">>,
               [goal_alignment |-> TRUE])

\* `"DRIFT" in o` for the observation texts of the vertices (the test is
\* case-sensitive: "drift detected" does not hold it)
HasDRIFTAnyCase(o) == o = "drift detected"
HasDRIFT(o) == o = "DRIFT DETECTED"

\* a strategy that looks at growth before drift
ExpressionToneGrowthFirst(has_drift, has_growth) ==
    IF has_growth THEN "engaged_exploratory"
    ELSE IF has_drift THEN "reflective_concerned"
    ELSE "natural_conversational"

\* the expression strategy of OrchestraVertex.vote: if has_drift / elif has_growth / else
ExpressionTone(has_drift, has_growth) ==
    IF has_drift THEN "reflective_concerned"
    ELSE IF has_growth THEN "engaged_exploratory"
    ELSE "natural_conversational"

\* OrchestraVertex.vote
OrchestraVote(other_votes) ==
    LET has_growth == \E i \in 1..Len(other_votes) : other_votes[i].value.score > 60
        has_drift ==
            /\ "mirror" \in DictKeys(other_votes)
            /\ LET obs == DictGet(other_votes, "mirror").observations
               IN \E i \in 1..Len(obs) : HasDRIFT(obs[i])
        tone == ExpressionTone(has_drift, has_growth)
        share_self == has_drift \/ has_growth
    IN build_vote("orchestra", 50, <<"expression_guidance">>,
                  <<"Expression tone", "Share self-observations", "Vertex agreement">>,
                  [expression_tone |-> tone,
                   share_self_observations |-> share_self,
                   has_significant_growth |-> has_growth,
                   has_drift |-> has_drift])

\* vertex.vote(experience, context) of the vertex registered under `name`; every
\* vote() body is `try: ... except Exception as e: return self._build_error_vote(e)`
VertexVoteOf(name, b, ctx) ==
    CASE b.kind = "fail" -> build_error_vote(name)
      [] name = "ledger" -> LedgerVote(b)
      [] name = "garden" -> GardenVote(b)
      [] name = "mirror" -> MirrorVote(b)
      [] name = "compass" -> CompassVote(b)
      [] OTHER -> OrchestraVote(ctx)

\* the value of a task that has not produced a vote
NoVote == [vertex_name |-> "none", score |-> 0, action_proposals |-> <<>>,
           observations |-> <<>>, attachments |-> [none |-> TRUE]]

\* a _safe_vote without its try/except: the exception leaves the coroutine
safe_vote_uncaught(name, b, ctx) ==
    IF b.kind = "raise"
    THEN [raised |-> TRUE, vote |-> NoVote]
    ELSE [raised |-> FALSE, vote |-> VertexVoteOf(name, b, ctx)]

\* MetabolicKernel._safe_vote: an exception out of vote() becomes an error vote.
\* The outcome says whether the coroutine raised, and the vote it returned.
safe_vote(name, b, ctx) ==
    IF b.kind = "raise"
    THEN [raised |-> FALSE, vote |-> build_error_vote(name)]
    ELSE [raised |-> FALSE, vote |-> VertexVoteOf(name, b, ctx)]

(***************************************************************************)
(* kernel/tension_analyzer.py                                              *)
(***************************************************************************)
significance_threshold == 20

\* VertexName.value, spelled out
s_ledger == Str(<<"l","e","d","g","e","r">>)
s_garden == Str(<<"g","a","r","d","e","n">>)
s_mirror == Str(<<"m","i","r","r","o","r">>)
s_compass == Str(<<"c","o","m","p","a","s","s">>)
s_orchestra == Str(<<"o","r","c","h","e","s","t","r","a">>)
Spelling(name) ==
    CASE name = "ledger" -> s_ledger
      [] name = "garden" -> s_garden
      [] name = "mirror" -> s_mirror
      [] name = "compass" -> s_compass
      [] OTHER -> s_orchestra

TENSION_AXES ==
    (<<"ledger", "garden">> :> "storage_vs_pruning")
    @@ (<<"ledger", "mirror">> :> "recording_vs_reflecting")
    @@ (<<"ledger", "compass">> :> "preservation_vs_direction")
    @@ (<<"garden", "mirror">> :> "pattern_vs_identity")
    @@ (<<"garden", "compass">> :> "meaning_vs_value")
    @@ (<<"mirror", "compass">> :> "self_relevance_vs_strategic_value")

\* pair_key = tuple(sorted([vn_a, vn_b], key=lambda x: x.value))
PairKey(vn_a, vn_b) ==
    IF StrLess(Spelling(vn_b), Spelling(vn_a)) THEN <<vn_b, vn_a>> ELSE <<vn_a, vn_b>>

\* dimension = TENSION_AXES.get(pair_key, f"{vn_a.value}_vs_{vn_b.value}")
Dimension(vn_a, vn_b) ==
    IF PairKey(vn_a, vn_b) \in DOMAIN TENSION_AXES
    THEN TENSION_AXES[PairKey(vn_a, vn_b)]
    ELSE vn_a \o "_vs_" \o vn_b

ActionTypes(vote) == {vote.action_proposals[i] : i \in 1..Len(vote.action_proposals)}

\* a threshold test that also drops the pairs apart by the threshold exactly
BelowOrAtThreshold(score_diff) == score_diff <= significance_threshold

\* `if score_diff < self.significance_threshold: return None`
BelowThreshold(score_diff) == score_diff < significance_threshold

\* TensionAnalyzer._compare_pair: <<>> for None, else the one Tension
compare_pair(name_a, vote_a, name_b, vote_b) ==
    IF name_a \notin VertexName \/ name_b \notin VertexName THEN <<>>
    ELSE LET score_diff == Abs(vote_a.score - vote_b.score)
             higher == IF vote_a.score > vote_b.score THEN name_a ELSE name_b
             lower == IF vote_a.score > vote_b.score THEN name_b ELSE name_a
             store_prune == "store" \in ActionTypes(vote_a) /\ "prune" \in ActionTypes(vote_b)
             repair == "identity_repair" \in ActionTypes(vote_a)
                       \/ "identity_repair" \in ActionTypes(vote_b)
             boosted1 == IF store_prune THEN Min(100, score_diff + 10) ELSE score_diff
             boosted2 == IF repair THEN Min(100, boosted1 + 15) ELSE boosted1
         IN IF BelowThreshold(score_diff) THEN <<>>
            ELSE <<[vertex_a |-> name_a, vertex_b |-> name_b,
                    dimension |-> Dimension(name_a, name_b),
                    magnitude |-> Min(100, boosted2),
                    resolution_hint |-> [higher |-> higher, lower |-> lower,
                                         store_vs_prune |-> store_prune,
                                         identity_repair |-> repair]]>>

\* the double loop of analyze over vote_items
RECURSIVE ComparePairs(_, _, _)
ComparePairs(items, i, j) ==
    IF i > Len(items) THEN <<>>
    ELSE IF j > Len(items) THEN ComparePairs(items, i + 1, i + 2)
    ELSE compare_pair(items[i].key, items[i].value, items[j].key, items[j].value)
         \o ComparePairs(items, i, j + 1)

\* tensions.sort(key=lambda t: t.magnitude, reverse=True): stable, strongest first.
\* Rank is the place of ts[i] in the sorted list.
Rank(ts, i) ==
    1 + Cardinality({j \in 1..Len(ts) :
                        \/ ts[j].magnitude > ts[i].magnitude
                        \/ (ts[j].magnitude = ts[i].magnitude /\ j < i)})
SortSkipped(ts) == ts
SortByMagnitude(ts) ==
    [k \in 1..Len(ts) |-> ts[CHOOSE i \in 1..Len(ts) : Rank(ts, i) = k]]

\* an analyze that compares every vote, Orchestra's included
ContentVotesAll(vs) == vs

\* content_votes: the votes without Orchestra
ContentVotes(vs) == SelectSeq(vs, LAMBDA e : e.key # "orchestra")

\* TensionAnalyzer.analyze: vote_items, then the tensions of the double loop, then
\* the sort; each intermediate list is bound once, as the local variables are
analyze(vs) ==
    CHOOSE sorted \in {SortByMagnitude(found) :
                          found \in {ComparePairs(vote_items, 1, 2) :
                                        vote_items \in {ContentVotes(vs)}}} : TRUE

(***************************************************************************)
(* kernel/metabolic_kernel.py                                              *)
(***************************************************************************)
parallel_vertices == <<"ledger", "garden", "mirror", "compass">>

NoBehaviour == [kind |-> "none", score |-> 0, flag |-> FALSE]
NoSynthesis == [mode |-> "none"]
NoResult == [returned |-> FALSE]
NoContext == [called |-> FALSE]

\* replies of the synthesis LM: the call or the parse fails, or the JSON carries a
\* growth_delta (in units of 0.0001)
LLMReplies ==
    {[kind |-> "raise", growth_delta |-> 0]}
    \cup [kind : {"json"}, growth_delta : {-500, 500, 2000}]

RECURSIVE SumScores(_)
SumScores(vs) == IF vs = <<>> THEN 0 ELSE vs[1].value.score + SumScores(Tail(vs))
RECURSIVE CountProposals(_)
CountProposals(vs) ==
    IF vs = <<>> THEN 0 ELSE Len(vs[1].value.action_proposals) + CountProposals(Tail(vs))

\* round(x) of the fraction num/den >= 0, to the nearest integer
RoundDiv(num, den) == (2 * num + den) \div (2 * den)

\* MetabolicKernel._heuristic_synthesis; avg_importance in 0.001, growth_delta in 0.0001
heuristic_synthesis(vs, ts) ==
    LET n == Len(vs)
        orchestra_has == "orchestra" \in DictKeys(vs)
    IN [mode |-> "heuristic",
        decision |-> [action |-> "process_and_store",
                      avg_importance |-> IF n = 0 THEN 0 ELSE RoundDiv(10 * SumScores(vs), n),
                      proposal_count |-> CountProposals(vs)],
        tensions_resolved |-> ts,
        growth_delta |-> IF n = 0 THEN 0 ELSE RoundDiv(10 * SumScores(vs), n),
        identity_updates |->
            IF "mirror" \in DictKeys(vs)
            THEN SelectSeq(DictGet(vs, "mirror").action_proposals,
                           LAMBDA p : p = "update_self_model")
            ELSE <<>>,
        response_guidance |->
            IF orchestra_has
            THEN LET att == DictGet(vs, "orchestra").attachments
                 IN [tone |-> IF "expression_tone" \in DOMAIN att
                              THEN att.expression_tone ELSE "natural",
                     share_self |-> IF "share_self_observations" \in DOMAIN att
                                    THEN att.share_self_observations ELSE FALSE]
            ELSE <<>>]

\* a clamp that only caps from above
ClampGrowthDeltaAbove(x) == Min(1000, x)

\* min(0.1, max(0.0, data.get("growth_delta", 0.0))), in units of 0.0001
ClampGrowthDelta(x) == Min(1000, Max(0, x))

\* MetabolicKernel._llm_synthesis, for a reply that parsed
llm_synthesis(vs, ts, reply) ==
    [mode |-> "llm",
     decision |-> [action |-> "llm"],
     tensions_resolved |-> ts,
     growth_delta |-> ClampGrowthDelta(reply.growth_delta),
     identity_updates |-> <<>>,
     response_guidance |-> IF "orchestra" \in DictKeys(vs)
                           THEN DictGet(vs, "orchestra").attachments ELSE <<>>]

\* MetabolicKernel._synthesize: any exception of the LM path falls back
synthesize(vs, ts, has_llm, reply) ==
    IF has_llm /\ reply.kind # "raise"
    THEN llm_synthesis(vs, ts, reply)
    ELSE heuristic_synthesis(vs, ts)

\* PentagramResult, with its derived properties
PentagramResult(vs, ts, syn, tm, errs) ==
    [returned |-> TRUE, votes |-> vs, tensions |-> ts, synthesis |-> syn,
     timings |-> tm, errors |-> errs,
     successful_votes |-> Len(vs),
     has_synthesis |-> syn # NoSynthesis]

\* the tasks process() creates, in the order of parallel_vertices
TasksFor(registered) ==
    LET names == SelectSeq(parallel_vertices, LAMBDA n : n \in registered)
    IN [i \in 1..Len(names) |->
           [key |-> names[i], value |-> [done |-> FALSE, raised |-> FALSE, vote |-> NoVote]]]

\* MetabolicKernel._build_vertex_context: the keys of the context view, built from
\* the votes collected so far (process() passes an empty dict in Phase 1)
build_vertex_context(vertex_name, collected_votes) ==
    CASE vertex_name = "mirror" ->
            {"identity_state", "self_model"}
            \cup (IF "ledger" \in DictKeys(collected_votes) THEN {"ledger_context"} ELSE {})
            \cup (IF "garden" \in DictKeys(collected_votes) THEN {"garden_context"} ELSE {})
      [] vertex_name = "garden" ->
            IF "ledger" \in DictKeys(collected_votes) THEN {"ledger_memories"} ELSE {}
      [] vertex_name = "compass" ->
            {"identity_context"}
            \cup (IF "garden" \in DictKeys(collected_votes) THEN {"garden_patterns"} ELSE {})
      [] OTHER -> {}

outsideKernel == <<topoVars, taVars, monVars, cycles, threads, call, detVars>>

\* MetabolicKernel.register_vertex
RegisterVertex(name) ==
    /\ pc = "idle"
    /\ vertices' = vertices \cup {name}
    /\ UNCHANGED <<llm_provider, pc, behaviour, parallel_tasks, awaited, votes, timings,
                   errors, tensions, synthesis, result, orchestra_ctx>>
    /\ UNCHANGED outsideKernel

\* process(): entry, up to the creation of the Phase-1 tasks
ProcessStart ==
    /\ pc = "idle"
    /\ pc' = "phase1"
    /\ parallel_tasks' = TasksFor(vertices)
    /\ awaited' = 0
    /\ votes' = <<>>
    /\ timings' = {}
    /\ errors' = <<>>
    /\ UNCHANGED <<vertices, llm_provider, behaviour, tensions, synthesis, result,
                   orchestra_ctx>>
    /\ UNCHANGED outsideKernel

\* one Phase-1 task runs _safe_vote(vertex, experience, vertex_ctx) to its end
TaskRun(name) ==
    /\ pc = "phase1"
    /\ \E i \in 1..Len(parallel_tasks) :
          /\ parallel_tasks[i].key = name
          /\ ~parallel_tasks[i].value.done
          /\ \E b \in Behaviours(name) :
                /\ behaviour' = [behaviour EXCEPT ![name] = b]
                /\ parallel_tasks' = [parallel_tasks EXCEPT ![i].value =
                       LET out == safe_vote(name, b, build_vertex_context(name, <<>>))
                       IN [done |-> TRUE, raised |-> out.raised, vote |-> out.vote]]
    /\ UNCHANGED <<vertices, llm_provider, pc, awaited, votes, timings, errors,
                   tensions, synthesis, result, orchestra_ctx>>
    /\ UNCHANGED outsideKernel

\* an await that only returns for a task whose vertex produced a valid vote
TaskFinishedWithVote(task) == task.done /\ ~IsErrorVote(task.vote)

\* `await task` returns (or raises) once the task has finished
TaskFinished(task) == task.done

\* process(): `vote = await task` for the next task of the loop
AwaitTask ==
    /\ pc = "phase1"
    /\ awaited < Len(parallel_tasks)
    /\ LET t == parallel_tasks[awaited + 1]
       IN /\ TaskFinished(t.value)
          /\ IF t.value.raised
             THEN /\ errors' = Append(errors, t.key)
                  /\ votes' = votes
             ELSE /\ votes' = DictSet(votes, t.key, t.value.vote)
                  /\ errors' = errors
          /\ timings' = timings \cup {t.key \o "_vote"}
    /\ awaited' = awaited + 1
    /\ UNCHANGED <<vertices, llm_provider, pc, behaviour, parallel_tasks,
                   tensions, synthesis, result, orchestra_ctx>>
    /\ UNCHANGED outsideKernel

\* a loop over parallel_tasks that is left after its first task
Phase1JoinedEarly(tasks, n) == n >= Min(1, Len(tasks))

\* `for name, task in parallel_tasks.items()` has awaited every task
Phase1Joined(tasks, n) == n = Len(tasks)

\* process(): Phase 2, Orchestra votes with the other votes as context
OrchestraPhase ==
    /\ pc = "phase1"
    /\ Phase1Joined(parallel_tasks, awaited)
    /\ pc' = "phase3"
    /\ timings' = timings \cup {"phase1_parallel", "phase2_orchestra"}
    /\ IF "orchestra" \in vertices
       THEN \E b \in Behaviours("orchestra") :
               LET out == safe_vote("orchestra", b, votes)
               IN /\ behaviour' = [behaviour EXCEPT !["orchestra"] = b]
                  /\ orchestra_ctx' = [called |-> TRUE, other_votes |-> votes]
                  /\ IF out.raised
                     THEN /\ errors' = Append(errors, "orchestra")
                          /\ votes' = votes
                     ELSE /\ votes' = DictSet(votes, "orchestra", out.vote)
                          /\ errors' = errors
       ELSE UNCHANGED <<behaviour, votes, errors, orchestra_ctx>>
    /\ UNCHANGED <<vertices, llm_provider, parallel_tasks, awaited,
                   tensions, synthesis, result>>
    /\ UNCHANGED outsideKernel

\* process(): Phase 3, tension analysis
TensionPhase ==
    /\ pc = "phase3"
    /\ pc' = "phase4"
    /\ tensions' = analyze(votes)
    /\ timings' = timings \cup {"phase3_tensions"}
    /\ UNCHANGED <<vertices, llm_provider, behaviour, parallel_tasks, awaited, votes,
                   errors, synthesis, result, orchestra_ctx>>
    /\ UNCHANGED outsideKernel

\* process(): Phase 4, synthesis, and the result is built and returned
SynthesisPhase ==
    /\ pc = "phase4"
    /\ pc' = "done"
    /\ \E reply \in (IF llm_provider THEN LLMReplies ELSE {[kind |-> "raise", growth_delta |-> 0]}) :
          LET syn == synthesize(votes, tensions, llm_provider, reply)
              tm == timings \cup {"phase4_synthesis", "total"}
          IN /\ synthesis' = syn
             /\ timings' = tm
             /\ result' = PentagramResult(votes, tensions, syn, tm, errors)
    /\ UNCHANGED <<vertices, llm_provider, behaviour, parallel_tasks, awaited, votes,
                   errors, tensions, orchestra_ctx>>
    /\ UNCHANGED outsideKernel

\* the caller has taken the result; the locals of the call are gone
ProcessReturn ==
    /\ pc = "done"
    /\ pc' = "idle"
    /\ behaviour' = [n \in VertexName |-> NoBehaviour]
    /\ parallel_tasks' = <<>>
    /\ awaited' = 0
    /\ votes' = <<>>
    /\ timings' = {}
    /\ errors' = <<>>
    /\ tensions' = <<>>
    /\ synthesis' = NoSynthesis
    /\ result' = NoResult
    /\ orchestra_ctx' = NoContext
    /\ UNCHANGED <<vertices, llm_provider>>
    /\ UNCHANGED outsideKernel

\* a task that task.cancel() has ended: it finished by raising CancelledError
CancelledTask == [done |-> TRUE, raised |-> TRUE, vote |-> NoVote]

\* the caller cancels process() while it is suspended in `vote = await task`:
\* the awaited task is cancelled with it, CancelledError is not an Exception and
\* leaves process() past the `except Exception`, and the tasks not yet awaited
\* are left as they are
CancelProcess ==
    /\ pc = "phase1"
    /\ awaited < Len(parallel_tasks)
    /\ ~parallel_tasks[awaited + 1].value.done
    /\ pc' = "cancelled"
    /\ parallel_tasks' = [parallel_tasks EXCEPT ![awaited + 1].value = CancelledTask]
    /\ UNCHANGED <<vertices, llm_provider, behaviour, awaited, votes, timings, errors,
                   tensions, synthesis, result, orchestra_ctx>>
    /\ UNCHANGED outsideKernel

\* a task of a cancelled process() is still scheduled on the event loop and runs
\* _safe_vote to its end; nobody awaits it
OrphanRun(name) ==
    /\ pc = "cancelled"
    /\ \E i \in 1..Len(parallel_tasks) :
          /\ parallel_tasks[i].key = name
          /\ ~parallel_tasks[i].value.done
          /\ \E b \in Behaviours(name) :
                /\ behaviour' = [behaviour EXCEPT ![name] = b]
                /\ parallel_tasks' = [parallel_tasks EXCEPT ![i].value =
                       LET out == safe_vote(name, b, build_vertex_context(name, <<>>))
                       IN [done |-> TRUE, raised |-> out.raised, vote |-> out.vote]]
    /\ UNCHANGED <<vertices, llm_provider, pc, awaited, votes, timings, errors,
                   tensions, synthesis, result, orchestra_ctx>>
    /\ UNCHANGED outsideKernel

\* the last task of a cancelled process() has ended and the event loop drops them
OrphansGone ==
    /\ pc = "cancelled"
    /\ \A i \in 1..Len(parallel_tasks) : parallel_tasks[i].value.done
    /\ pc' = "idle"
    /\ behaviour' = [n \in VertexName |-> NoBehaviour]
    /\ parallel_tasks' = <<>>
    /\ awaited' = 0
    /\ votes' = <<>>
    /\ timings' = {}
    /\ errors' = <<>>
    /\ UNCHANGED <<vertices, llm_provider, tensions, synthesis, result, orchestra_ctx>>
    /\ UNCHANGED outsideKernel

(***************************************************************************)
(* kernel/metabolic_kernel.py: process() calls that run concurrently on    *)
(* one kernel.  A call is named by the message of its experience; every    *)
(* local of process() lives in the frame of its call.                      *)
(***************************************************************************)
Calls == {"a", "b"}

\* the frame of a call that is not running; overtaken and overlapped record
\* that a task finished before one created earlier, and that the call ran
\* while another was running
IdleFrame ==
    [pc |-> "idle", behaviour |-> [n \in VertexName |-> NoBehaviour],
     parallel_tasks |-> <<>>, votes |-> <<>>, timings |-> {}, errors |-> <<>>,
     tensions |-> <<>>, synthesis |-> NoSynthesis, result |-> NoResult,
     overtaken |-> FALSE, overlapped |-> FALSE]

\* what vote() may do in these cycles
ConcurrentBehaviours(name) ==
    CASE name = "ledger" -> {[kind |-> "vote", score |-> 100, flag |-> FALSE]}
      [] name = "garden" -> {Fail, [kind |-> "vote", score |-> 30, flag |-> TRUE]}
      [] name = "mirror" -> {Raise, [kind |-> "vote", score |-> 130, flag |-> FALSE]}
      [] name = "compass" -> {[kind |-> "vote", score |-> 50, flag |-> FALSE]}
      [] OTHER -> {[kind |-> "vote", score |-> 50, flag |-> FALSE]}

\* _safe_vote(vertex, experience, ctx): the vote's reasoning is about the
\* experience the vertex was given
safe_vote_on(experience, name, b, ctx) ==
    LET out == safe_vote(name, b, ctx)
    IN [raised |-> out.raised, vote |-> [reasoning |-> experience] @@ out.vote]

\* one frame for the votes of every call
SharedFrame(c) == "a"

\* the frame that holds the locals of call c
Frame(c) == c

\* an await loop that takes the finished tasks first (0 when all are joined)
FirstFinishedTask(tasks, tm) ==
    LET unjoined == {i \in 1..Len(tasks) : (tasks[i].key \o "_vote") \notin tm}
        finished == {i \in unjoined : tasks[i].value.done}
        from == IF finished # {} THEN finished ELSE unjoined
    IN IF unjoined = {} THEN 0 ELSE CHOOSE i \in from : \A j \in from : i <= j

\* `for name, task in parallel_tasks.items()`: the task the loop awaits next, the
\* first in the dict's order that has no timing yet (0 when all are joined)
NextTask(tasks, tm) ==
    LET unjoined == {i \in 1..Len(tasks) : (tasks[i].key \o "_vote") \notin tm}
    IN IF unjoined = {} THEN 0 ELSE CHOOSE i \in unjoined : \A j \in unjoined : i <= j

outsideCycles == <<topoVars, kernelVars, taVars, monVars, threads, call, detVars>>
Running(c) == cycles[c].pc \notin {"idle", "done"}

\* process(experience): entry, up to the creation of the Phase-1 tasks
StartCycle(c) ==
    /\ cycles[c].pc = "idle"
    /\ LET others == {d \in Calls \ {c} : Running(d)}
       IN cycles' = [d \in Calls |->
              IF d = c
              THEN [IdleFrame EXCEPT !.pc = "phase1",
                                     !.parallel_tasks = TasksFor(vertices),
                                     !.overlapped = others # {}]
              ELSE IF d \in others THEN [cycles[d] EXCEPT !.overlapped = TRUE]
              ELSE cycles[d]]
    /\ UNCHANGED outsideCycles

\* one Phase-1 task of call c runs _safe_vote(vertex, experience, vertex_ctx)
RunTask(c, name) ==
    /\ cycles[c].pc = "phase1"
    /\ \E i \in 1..Len(cycles[c].parallel_tasks) :
          /\ cycles[c].parallel_tasks[i].key = name
          /\ ~cycles[c].parallel_tasks[i].value.done
          /\ \E b \in ConcurrentBehaviours(name) :
                LET out == safe_vote_on(c, name, b, build_vertex_context(name, <<>>))
                IN cycles' = [cycles EXCEPT
                       ![c].behaviour[name] = b,
                       ![c].parallel_tasks[i].value =
                           [done |-> TRUE, raised |-> out.raised, vote |-> out.vote],
                       ![c].overtaken =
                           @ \/ \E j \in 1..(i - 1) : ~cycles[c].parallel_tasks[j].value.done]
    /\ UNCHANGED outsideCycles

\* process() of call c: `vote = await task; votes[name] = vote`
AwaitNext(c) ==
    /\ cycles[c].pc = "phase1"
    /\ LET i == NextTask(cycles[c].parallel_tasks, cycles[c].timings)
       IN /\ i # 0
          /\ LET t == cycles[c].parallel_tasks[i]
             IN /\ TaskFinished(t.value)
                /\ cycles' = [[cycles EXCEPT
                       ![c].timings = @ \cup {t.key \o "_vote"},
                       ![c].errors = IF t.value.raised THEN Append(@, t.key) ELSE @]
                     EXCEPT
                       ![Frame(c)].votes =
                           IF t.value.raised THEN @ ELSE DictSet(@, t.key, t.value.vote)]
    /\ UNCHANGED outsideCycles

\* process() of call c: Phase 2, Orchestra votes with the other votes as context
OrchestraVotes(c) ==
    /\ cycles[c].pc = "phase1"
    /\ NextTask(cycles[c].parallel_tasks, cycles[c].timings) = 0
    /\ IF "orchestra" \in vertices
       THEN \E b \in ConcurrentBehaviours("orchestra") :
               LET out == safe_vote_on(c, "orchestra", b, cycles[c].votes)
               IN cycles' = [[cycles EXCEPT
                      ![c].pc = "phase3",
                      ![c].timings = @ \cup {"phase1_parallel", "phase2_orchestra"},
                      ![c].behaviour["orchestra"] = b,
                      ![c].errors = IF out.raised THEN Append(@, "orchestra") ELSE @]
                    EXCEPT
                      ![Frame(c)].votes =
                          IF out.raised THEN @ ELSE DictSet(@, "orchestra", out.vote)]
       ELSE cycles' = [cycles EXCEPT
                ![c].pc = "phase3",
                ![c].timings = @ \cup {"phase1_parallel", "phase2_orchestra"}]
    /\ UNCHANGED outsideCycles

\* process() of call c: Phase 3, tension analysis
AnalyzeTensions(c) ==
    /\ cycles[c].pc = "phase3"
    /\ cycles' = [cycles EXCEPT
           ![c].pc = "phase4",
           ![c].tensions = analyze(cycles[c].votes),
           ![c].timings = @ \cup {"phase3_tensions"}]
    /\ UNCHANGED outsideCycles

\* process() of call c: Phase 4, synthesis, and the result is built and returned
Synthesize(c) ==
    /\ cycles[c].pc = "phase4"
    /\ \E reply \in (IF llm_provider THEN LLMReplies ELSE {[kind |-> "raise", growth_delta |-> 0]}) :
          LET cy == cycles[c]
              syn == synthesize(cy.votes, cy.tensions, llm_provider, reply)
              tm == cy.timings \cup {"phase4_synthesis", "total"}
          IN cycles' = [cycles EXCEPT
                 ![c].pc = "done",
                 ![c].synthesis = syn,
                 ![c].timings = tm,
                 ![c].result = PentagramResult(cy.votes, cy.tensions, syn, tm, cy.errors)]
    /\ UNCHANGED outsideCycles

\* the caller of call c has taken the result; the frame is gone
FinishCycle(c) ==
    /\ cycles[c].pc = "done"
    /\ cycles' = [cycles EXCEPT ![c] = IdleFrame]
    /\ UNCHANGED outsideCycles

(***************************************************************************)
(* development/monitor.py                                                  *)
(* growth_signal is an integer in units of 1/3000, so that every weight of *)
(* the composite is exact; level is in units of 0.0001, confidence in      *)
(* hundredths, cross_session_continuity in fifths.                         *)
(***************************************************************************)
\* DevelopmentMonitor.__init__(window_size=100)
DefaultWindowSize == 100

RECURSIVE SumSeq(_)
SumSeq(xs) == IF xs = <<>> THEN 0 ELSE xs[1] + SumSeq(Tail(xs))

\* round(num/den, 0) as Python rounds: to the nearest, a tie to the even neighbour
RoundHalfEven(num, den) ==
    LET q == num \div den
        r == num - q * den
    IN IF 2 * r < den THEN q
       ELSE IF 2 * r > den THEN q + 1
       ELSE IF q % 2 = 0 THEN q ELSE q + 1

\* GrowthSnapshot.growth_signal
growth_signal(s) ==
    s.self_reference_depth * 120
    + Min(600, s.novel_connection_count * 200)
    + Min(450, s.self_model_updates * 225)
    + s.cross_session_continuity * 90
    + Min(450, s.amalgamation_count * 225)
    + (IF s.meta_cognitive_moment THEN 450 ELSE 0)

\* result.votes.get(name): the vote, or None
NoneVote == [vertex_name |-> "None"]
VotesGet(vs, name) == IF name \in DictKeys(vs) THEN DictGet(vs, name) ELSE NoneVote

\* `not vote or not vote.attachments`
NoAttachments(vote) == vote = NoneVote \/ DOMAIN vote.attachments = {}

\* DevelopmentMonitor._extract_self_ref_depth
extract_self_ref_depth(vote) ==
    IF NoAttachments(vote) THEN 0
    ELSE IF "self_reference_depth" \in DOMAIN vote.attachments
         THEN vote.attachments.self_reference_depth ELSE 0

\* DevelopmentMonitor._extract_novel_connections
extract_novel_connections(vote) ==
    IF NoAttachments(vote) THEN 0
    ELSE IF "patterns" \in DOMAIN vote.attachments
         THEN Len(SelectSeq(vote.attachments.patterns, LAMBDA p : p.cross_domain))
         ELSE 0

\* DevelopmentMonitor._extract_self_model_updates
extract_self_model_updates(vote) ==
    IF vote = NoneVote THEN 0
    ELSE Len(SelectSeq(vote.action_proposals, LAMBDA p : p = "update_self_model"))

\* DevelopmentMonitor._extract_continuity: min(1.0, count / 5.0), in fifths
extract_continuity(vote) ==
    IF NoAttachments(vote) THEN 0
    ELSE IF "retrieval_count" \in DOMAIN vote.attachments
         THEN Min(5, vote.attachments.retrieval_count) ELSE 0

\* DevelopmentMonitor._extract_meta_cognitive
extract_meta_cognitive(vote) ==
    IF NoAttachments(vote) THEN FALSE
    ELSE IF "meta_cognitive_moment" \in DOMAIN vote.attachments
         THEN vote.attachments.meta_cognitive_moment ELSE FALSE

\* DevelopmentMonitor._avg_score, in units of 0.001
avg_score(vs) == IF vs = <<>> THEN 0 ELSE RoundDiv(10 * SumScores(vs), Len(vs))

\* the GrowthSnapshot record_cycle builds from result.votes
GrowthSnapshot(vs) ==
    [self_reference_depth |-> extract_self_ref_depth(VotesGet(vs, "mirror")),
     novel_connection_count |-> extract_novel_connections(VotesGet(vs, "garden")),
     self_model_updates |-> extract_self_model_updates(VotesGet(vs, "mirror")),
     cross_session_continuity |-> extract_continuity(VotesGet(vs, "ledger")),
     amalgamation_count |-> 0,
     meta_cognitive_moment |-> extract_meta_cognitive(VotesGet(vs, "mirror")),
     avg_vertex_score |-> avg_score(vs)]

\* a list that never evicts
DequeAppendUnbounded(dq, maxlen, x) == Append(dq, x)

\* deque(maxlen=window_size).append: the oldest element falls out of a full window
DequeAppend(dq, maxlen, x) ==
    IF maxlen = 0 THEN <<>>
    ELSE IF Len(dq) < maxlen THEN Append(dq, x)
    ELSE Append(Tail(dq), x)

\* a _check_milestones that finds no milestone achieved yet
AchievedNone(ms) == {}

\* _check_milestones: achieved = [m["type"] for m in self._milestones]
Achieved(ms) == {ms[i].type : i \in 1..Len(ms)}

\* DevelopmentMonitor._check_milestones: the list after the three tests
check_milestones(ms, snapshot, cycle) ==
    LET achieved == Achieved(ms)
        meta == IF snapshot.meta_cognitive_moment /\ "first_meta_cognitive" \notin achieved
                THEN <<[type |-> "first_meta_cognitive", cycle |-> cycle]>> ELSE <<>>
        cross == IF snapshot.novel_connection_count > 0 /\ "first_cross_domain" \notin achieved
                 THEN <<[type |-> "first_cross_domain", cycle |-> cycle]>> ELSE <<>>
        deep == IF snapshot.self_reference_depth >= 3 /\ "deep_self_reference" \notin achieved
                THEN <<[type |-> "deep_self_reference", cycle |-> cycle]>> ELSE <<>>
    IN ms \o meta \o cross \o deep

\* DevelopmentMonitor.get_development_level
get_development_level(snaps) ==
    IF snaps = <<>>
    THEN [op |-> "get_development_level", level |-> 500, trend |-> "stable",
          snapshot_count |-> 0, breakdown |-> <<>>, confidence |-> 0]
    ELSE LET n == Len(snaps)
             signals == [i \in 1..n |-> growth_signal(snaps[i])]
             total == SumSeq(signals)
             recent_sum == SumSeq(SubSeq(signals, n - 9, n))
             previous_sum == SumSeq(SubSeq(signals, n - 19, n - 10))
             trend == IF n >= 20
                      THEN IF recent_sum > previous_sum + 600 THEN "growing"
                           ELSE IF recent_sum < previous_sum - 600 THEN "declining"
                           ELSE "stable"
                      ELSE "stable"
         IN [op |-> "get_development_level",
             level |-> RoundHalfEven(1500 * n + total, 3 * n),
             trend |-> trend,
             snapshot_count |-> n,
             breakdown |->
                 [avg_growth_signal |-> RoundHalfEven(10 * total, 3 * n),
                  avg_self_reference |->
                      RoundHalfEven(100 * SumSeq([i \in 1..n |-> snaps[i].self_reference_depth]), n),
                  meta_cognitive_rate |->
                      RoundHalfEven(1000 * Len(SelectSeq(snaps, LAMBDA s : s.meta_cognitive_moment)), n),
                  avg_vertex_score |->
                      RoundHalfEven(SumSeq([i \in 1..n |-> snaps[i].avg_vertex_score]), n)],
             confidence |-> Min(100, 2 * n)]

outsideMonitor == <<topoVars, kernelVars, taVars, cycles, threads, call, detVars>>

\* DevelopmentMonitor.record_cycle(result), for the votes of the result
record_cycle(vs) ==
    LET snapshot == GrowthSnapshot(vs)
    IN /\ cycle_count' = cycle_count + 1
       /\ snapshots' = DequeAppend(snapshots, window_size, snapshot)
       /\ milestones' = check_milestones(milestones, snapshot, cycle_count + 1)
       /\ cycle_log' = Append(cycle_log, snapshot)
       /\ mon_ret' = [op |-> "record_cycle", snapshot |-> snapshot]
       /\ UNCHANGED window_size
       /\ UNCHANGED outsideMonitor

\* level = monitor.get_development_level()
GetDevelopmentLevel ==
    /\ mon_ret' = get_development_level(snapshots)
    /\ UNCHANGED <<window_size, snapshots, milestones, cycle_count, cycle_log>>
    /\ UNCHANGED outsideMonitor

(***************************************************************************)
(* Specifications                                                          *)
(***************************************************************************)
\* no thread is inside apply_change
ThreadsIdle == threads = [t \in Threads |-> IdleThread]

TopologyIdle ==
    /\ ThreadsIdle
    /\ state = NotLoaded
    /\ pending_proposals = <<>>
    /\ consecutive_repair_failures = 0
    /\ ret = [op |-> "init"]
    /\ drift_log = <<>>

\* no process() call is running
ProcessIdle ==
    /\ pc = "idle"
    /\ behaviour = [n \in VertexName |-> NoBehaviour]
    /\ parallel_tasks = <<>>
    /\ awaited = 0
    /\ votes = <<>>
    /\ timings = {}
    /\ errors = <<>>
    /\ tensions = <<>>
    /\ synthesis = NoSynthesis
    /\ result = NoResult
    /\ orchestra_ctx = NoContext
    /\ cycles = [c \in Calls |-> IdleFrame]

KernelIdle ==
    /\ vertices = {}
    /\ ProcessIdle

\* nothing has been called on its own yet
NoCall == [op |-> "none"]
NotAnalyzed == [analyzed |-> FALSE]
AnalyzerIdle ==
    /\ ta_votes = <<>>
    /\ ta_out = NotAnalyzed
    /\ call = NoCall
    /\ recent_cycles = <<>>
    /\ check_count = 0

\* a DevelopmentMonitor nobody has called yet
NoLevel == [op |-> "init"]
MonitorFresh ==
    /\ snapshots = <<>>
    /\ milestones = <<>>
    /\ cycle_count = 0
    /\ mon_ret = NoLevel
    /\ cycle_log = <<>>
MonitorIdle ==
    /\ window_size = DefaultWindowSize
    /\ MonitorFresh

\* the kernel: MetabolicKernel(llm_provider) right after construction
Init ==
    /\ KernelIdle
    /\ llm_provider \in BOOLEAN
    /\ TopologyIdle
    /\ AnalyzerIdle
    /\ MonitorIdle

Next ==
    \/ \E name \in VertexName : RegisterVertex(name)
    \/ ProcessStart
    \/ \E name \in VertexName : TaskRun(name)
    \/ AwaitTask
    \/ OrchestraPhase
    \/ TensionPhase
    \/ SynthesisPhase
    \/ ProcessReturn

Spec == Init /\ [][Next]_vars

\* every vote() and the synthesis LM call eventually return or raise, and the event
\* loop keeps running process()
FairSpec == Spec /\ WF_vars(Next)

(***************************************************************************)
(* TensionAnalyzer.analyze called on a votes dict built by the caller      *)
(***************************************************************************)
\* scores of the votes, in hundredths: pairs apart by nothing, by less than the
\* threshold, by the threshold exactly, and by enough for a boosted magnitude to
\* reach the cap; Orchestra's score is far from the others'
TensionScoresOf(name) ==
    CASE name = "ledger" -> {80, 100}
      [] name = "garden" -> {0, 90}
      [] name = "mirror" -> {40, 100}
      [] name = "compass" -> {60, 80}
      [] OTHER -> {10}
\* the proposal lists the vertices emit: Ledger stores, Garden prunes, Mirror asks
\* for identity repair, Compass pursues a direction, Orchestra guides expression
TensionProposals(name) ==
    CASE name = "ledger" -> {<<>>, <<"store">>}
      [] name = "garden" -> {<<>>, <<"prune">>}
      [] name = "mirror" -> {<<>>, <<"identity_repair">>}
      [] name = "compass" -> {<<"pursue_direction">>}
      [] OTHER -> {<<"expression_guidance">>}

\* the caller puts VertexVote(vertex_name=name, score=..., action_proposals=...) in the dict
AddVote(name, score, proposals) ==
    /\ ta_out = NotAnalyzed
    /\ name \notin DictKeys(ta_votes)
    /\ Len(ta_votes) < MaxVotes
    /\ ScoreValid(score)
    /\ ta_votes' = DictSet(ta_votes, name,
                           [vertex_name |-> name, score |-> score,
                            action_proposals |-> proposals,
                            observations |-> <<>>, attachments |-> <<>>])
    /\ UNCHANGED ta_out
    /\ UNCHANGED <<topoVars, kernelVars, monVars, cycles, threads, call, detVars>>

\* tensions = analyzer.analyze(votes)
Analyze ==
    /\ ta_out = NotAnalyzed
    /\ ta_out' = [analyzed |-> TRUE, tensions |-> analyze(ta_votes)]
    /\ UNCHANGED ta_votes
    /\ UNCHANGED <<topoVars, kernelVars, monVars, cycles, threads, call, detVars>>

\* the caller drops the dict and the result
Discard ==
    /\ ta_out # NotAnalyzed
    /\ ta_votes' = <<>>
    /\ ta_out' = NotAnalyzed
    /\ UNCHANGED <<topoVars, kernelVars, monVars, cycles, threads, call, detVars>>

TensionInit ==
    /\ KernelIdle
    /\ llm_provider = FALSE
    /\ TopologyIdle
    /\ AnalyzerIdle
    /\ MonitorIdle

TensionNext ==
    \/ \E name \in VertexName :
          \E score \in TensionScoresOf(name), proposals \in TensionProposals(name) :
              AddVote(name, score, proposals)
    \/ Analyze
    \/ Discard

TensionSpec == TensionInit /\ [][TensionNext]_vars

(***************************************************************************)
(* IdentityTopology: load, validate, propose, apply, clear                 *)
(***************************************************************************)
TopologyInit ==
    /\ TopologyIdle
    /\ KernelIdle
    /\ llm_provider = FALSE
    /\ AnalyzerIdle
    /\ MonitorIdle

TopologyNext ==
    \/ \E doc \in ScarDocs : Load(doc)
    \/ \E p \in Proposals : ValidateChange(p)
    \/ \E p \in Proposals : ProposeChange(p)
    \/ \E p \in Proposals : ApplyChange(p)
    \/ ClearPending

TopologySpec == TopologyInit /\ [][TopologyNext]_vars

(***************************************************************************)
(* IdentityTopology: load and check_drift                                  *)
(***************************************************************************)
DriftNext ==
    \/ \E doc \in ScarDocs : Load(doc)
    \/ \E sig \in Signals : CheckDrift(sig)

DriftSpec == TopologyInit /\ [][DriftNext]_vars

(***************************************************************************)
(* IdentityTopology: every operation, in any order                         *)
(***************************************************************************)
\* signals in range, and signals with a low coherence
IdentitySignals ==
    {[invariant_alignment |-> 100, coherence |-> 100, value_misalignment |-> 0,
      relationship_integrity |-> 100],
     [invariant_alignment |-> 100, coherence |-> 60, value_misalignment |-> 0,
      relationship_integrity |-> 100]}

\* proposals for a mutable region, for a region that is not mutable, for an
\* invariant and for a region nobody knows
IdentityProposals ==
    {p \in Proposals :
        p.region \in {s_learned_knowledge, s_frozen, s_Core_Purpose, s_totally_new_region}}

IdentityNext ==
    \/ \E doc \in ScarDocs : Load(doc)
    \/ \E p \in IdentityProposals : ValidateChange(p)
    \/ \E p \in IdentityProposals : ProposeChange(p)
    \/ \E p \in IdentityProposals : ApplyChange(p)
    \/ ClearPending
    \/ \E sig \in IdentitySignals : CheckDrift(sig)

IdentitySpec == TopologyInit /\ [][IdentityNext]_vars

(***************************************************************************)
(* identity/drift_detector.py: a StandaloneDriftDetector on an             *)
(* IdentityTopology that other callers check as well                       *)
(***************************************************************************)
\* StandaloneDriftDetector(topology, window_size) for a short window
DetectorWindow == 2

\* a value the LM left out of its reply
Missing == 0 - 1

\* Cycles handed to record_cycle: the vertices registered with the kernel, what
\* each vote() did, and the numbers the LMs of Mirror and Compass reported
\* under identity_alignment.invariant_alignment and goal_alignment.alignment_score
DetectorCycle(registered, garden, mirror, compass, orchestra, inv, goal) ==
    [registered |-> registered,
     behaviour |-> [n \in VertexName |->
                      CASE n = "ledger" -> [kind |-> "vote", score |-> 100, flag |-> FALSE]
                        [] n = "garden" -> garden
                        [] n = "mirror" -> mirror
                        [] n = "compass" -> compass
                        [] OTHER -> orchestra],
     invariant_alignment |-> inv,
     alignment_score |-> goal]
Voted(score) == [kind |-> "vote", score |-> score, flag |-> FALSE]

\* a kernel without Orchestra; a quiet cycle of all five; a cycle whose Mirror
\* reports drift and low alignment, whose Compass failed and whose Orchestra's
\* vote() raised
DetectorCycles ==
    {DetectorCycle({"ledger", "mirror"}, Fail, Voted(50), Fail, Fail, Missing, Missing),
     DetectorCycle(VertexName, Voted(50), Voted(50), Voted(50), Voted(50), 100, 60),
     DetectorCycle(VertexName, Voted(30), [kind |-> "vote", score |-> 130, flag |-> TRUE],
                   Fail, Raise, 40, Missing)}

\* the signals of another caller of check_drift on the same topology
HealthySignals ==
    {[invariant_alignment |-> 100, coherence |-> 100, value_misalignment |-> 0,
      relationship_integrity |-> 100]}

\* the PentagramResult of process() for such a cycle: the Phase-1 votes in the
\* order of parallel_vertices, then Orchestra's, and the tensions among them
ResultOf(c) ==
    LET names == SelectSeq(parallel_vertices, LAMBDA n : n \in c.registered)
        phase1 == [i \in 1..Len(names) |->
                      [key |-> names[i],
                       value |-> safe_vote(names[i], c.behaviour[names[i]], <<>>).vote]]
        all == IF "orchestra" \in c.registered
               THEN DictSet(phase1, "orchestra",
                            safe_vote("orchestra", c.behaviour["orchestra"], phase1).vote)
               ELSE phase1
    IN [votes |-> all,
        tensions |-> analyze(all),
        invariant_alignment |-> c.invariant_alignment,
        alignment_score |-> c.alignment_score]

\* the scores _aggregate_signals collects from the window
mirror_alignments(cs) ==
    LET with == SelectSeq(cs, LAMBDA c : "mirror" \in DictKeys(c.votes))
    IN [i \in 1..Len(with) |->
           IF IsErrorVote(DictGet(with[i].votes, "mirror")) \/ with[i].invariant_alignment = Missing
           THEN 100 ELSE with[i].invariant_alignment]
compass_alignments(cs) ==
    LET with == SelectSeq(cs, LAMBDA c : "compass" \in DictKeys(c.votes))
    IN [i \in 1..Len(with) |->
           IF IsErrorVote(DictGet(with[i].votes, "compass")) \/ with[i].alignment_score = Missing
           THEN 100 ELSE with[i].alignment_score]
RECURSIVE tension_magnitudes(_)
tension_magnitudes(cs) ==
    IF cs = <<>> THEN <<>>
    ELSE [i \in 1..Len(cs[1].tensions) |-> cs[1].tensions[i].magnitude]
         \o tension_magnitudes(Tail(cs))

\* a relationship_integrity taken from Ledger's scores
orchestra_scores_of_ledger(cs) ==
    LET with == SelectSeq(cs, LAMBDA c : "ledger" \in DictKeys(c.votes))
    IN [i \in 1..Len(with) |-> DictGet(with[i].votes, "ledger").score]

\* orchestra_scores: the score of Orchestra's vote in each cycle that has one
orchestra_scores(cs) ==
    LET with == SelectSeq(cs, LAMBDA c : "orchestra" \in DictKeys(c.votes))
    IN [i \in 1..Len(with) |-> DictGet(with[i].votes, "orchestra").score]

\* StandaloneDriftDetector._aggregate_signals, in hundredths.  A mean that is
\* not a whole number of hundredths is rounded to the side that keeps every
\* comparison of check_drift with its thresholds (whole hundredths) as it is.
aggregate_signals(cs) ==
    IF cs = <<>>
    THEN [invariant_alignment |-> 100, coherence |-> 100, value_misalignment |-> 0,
          relationship_integrity |-> 100]
    ELSE LET ma == mirror_alignments(cs)
             tm == tension_magnitudes(cs)
             ca == compass_alignments(cs)
             os == orchestra_scores(cs)
             avg_tension == IF tm = <<>> THEN 0 ELSE (SumSeq(tm) + Len(tm) - 1) \div Len(tm)
         IN [invariant_alignment |-> IF ma = <<>> THEN 100 ELSE SumSeq(ma) \div Len(ma),
             coherence |-> Max(0, Min(100, 100 - avg_tension)),
             value_misalignment |-> IF ca = <<>> THEN 0 ELSE 100 - (SumSeq(ca) \div Len(ca)),
             relationship_integrity |-> IF os = <<>> THEN 100 ELSE SumSeq(os) \div Len(os)]

\* detector.record_cycle(result)
DetectorRecordCycle(c) ==
    /\ recent_cycles' = DequeAppend(recent_cycles, DetectorWindow, ResultOf(c))
    /\ UNCHANGED check_count
    /\ UNCHANGED <<topoVars, outsideDetector>>

\* detector.check_now()
CheckNow ==
    /\ check_count < MaxChecks
    /\ check_count' = check_count + 1
    /\ check_drift(aggregate_signals(recent_cycles))
    /\ UNCHANGED recent_cycles

DetectorNext ==
    \/ \E doc \in ScarDocs : Load(doc)
    \/ \E c \in DetectorCycles : DetectorRecordCycle(c)
    \/ CheckNow
    \/ \E sig \in HealthySignals : CheckDrift(sig)

DetectorSpec == TopologyInit /\ [][DetectorNext]_vars

(***************************************************************************)
(* IdentityTopology: load of any scar document, then validate and propose  *)
(***************************************************************************)
\* a scar document whose topology.invariants holds only the plain keys
\* 'description' and 'count'
s_count == Str(<<"c","o","u","n","t">>)
BareScarDoc ==
    [version |-> Str(<<"1",".","0",".","0">>),
     invariants |-> {[key |-> s_description, shaped |-> FALSE, name |-> <<>>],
                     [key |-> s_count, shaped |-> FALSE, name |-> <<>>]},
     flexible_regions |-> {[key |-> s_learned_knowledge, mutable |-> TRUE]}]

LoadNext ==
    \/ \E doc \in ScarDocs \cup {BareScarDoc} : Load(doc)
    \/ \E p \in Proposals : ValidateChange(p)
    \/ \E p \in Proposals : ProposeChange(p)
    \/ ClearPending

LoadSpec == TopologyInit /\ [][LoadNext]_vars

(***************************************************************************)
(* vertices/ledger_vertex.py: LedgerVertex.vote called on its own          *)
(***************************************************************************)
\* how the vertex comes by its memory manager (_get_memory_manager): one was
\* given to the constructor, one is built on first use, or building it raises
MemoryManagers == {"given", "built", "unavailable"}

\* experience["message"]
Messages == {"", "We discussed architectural patterns"}

\* what `await mm.retrieve_mem(request)` (with the imports and the request built
\* before it) does: raises, returns nothing usable, or returns memory groups
Retrievals ==
    {[kind |-> "raise", memories |-> <<>>],
     [kind |-> "response", memories |-> <<>>],
     [kind |-> "response", memories |-> <<"m1">>],
     [kind |-> "response", memories |-> <<"m1", "m2">>]}

\* a vote() whose retrieval has no handler of its own
LedgerRaisesUnguarded(mm, message, retrieval) ==
    \/ mm = "unavailable"
    \/ message # "" /\ retrieval.kind = "raise"

\* whether an exception reaches the outer handler of LedgerVertex.vote: the
\* retrieval has a try block of its own, _get_memory_manager() has not
LedgerRaises(mm, message, retrieval) == mm = "unavailable"

\* retrieved_memories after the retrieval block
RetrievedMemories(message, retrieval) ==
    IF message # "" /\ retrieval.kind = "response" THEN retrieval.memories ELSE <<>>

StoreProposal == [type |-> "store", target |-> "memorize_pipeline", priority |-> "normal"]

\* LedgerVertex.vote(experience) for a dict experience
ledger_vote(mm, message, retrieval) ==
    IF LedgerRaises(mm, message, retrieval)
    THEN build_error_vote("ledger")
    ELSE LET retrieved_memories == RetrievedMemories(message, retrieval)
         IN build_vote("ledger", 100, <<StoreProposal>>,
                       <<"Retrieved related memory groups",
                         "Experience queued for storage via memorize pipeline">>
                       \o (IF retrieved_memories = <<>>
                           THEN <<"No related memories found">> ELSE <<>>),
                       [retrieved_memories |-> retrieved_memories,
                        retrieval_count |-> Len(retrieved_memories),
                        store_queued |-> TRUE])

outsideCall == <<topoVars, kernelVars, taVars, monVars, cycles, threads, detVars>>

\* vote = await ledger.vote({"message": message, ...})
LedgerVoteCall(mm, message, retrieval) ==
    /\ call' = [op |-> "ledger.vote", mm |-> mm, message |-> message,
                retrieval |-> retrieval, vote |-> ledger_vote(mm, message, retrieval)]
    /\ UNCHANGED outsideCall

(***************************************************************************)
(* _safe_vote around one vertex, with the text of the error vote spelled   *)
(* out (base_vertex.py, _build_error_vote)                                 *)
(***************************************************************************)
s_RuntimeError == Str(<<"R","u","n","t","i","m","e","E","r","r","o","r">>)
s_ValueError == Str(<<"V","a","l","u","e","E","r","r","o","r">>)
s_LLM_down == Str(<<"L","L","M"," ","d","o","w","n">>)
s_bad_score == Str(<<"s","c","o","r","e",":"," ","b","a","d">>)
s_vertex_error == Str(<<"v","e","r","t","e","x","_","e","r","r","o","r",":"," ">>)
s_colon == Str(<<":"," ">>)
s_Error_during == Str(<<"E","r","r","o","r"," ","d","u","r","i","n","g"," ">>)
s_processing == Str(<<" ","p","r","o","c","e","s","s","i","n","g",":"," ">>)
s_fine == Str(<<"f","i","n","e">>)

\* the exceptions (subclasses of Exception) a vote() raises: type(e).__name__ and
\* str(e), which may be empty or hold a colon itself
Exceptions == [type : {s_RuntimeError, s_ValueError}, message : {<<>>, s_LLM_down, s_bad_score}]

\* what one vote() call does when awaited by _safe_vote
VoteOutcomes ==
    [kind : {"raise"}, error : Exceptions, score : {0}]
    \cup [kind : {"vote"}, error : {[type |-> <<>>, message |-> <<>>]}, score : {0, 50}]

\* an observation that leaves the exception out
ErrorObservationBare(error) == s_vertex_error

\* f"vertex_error: {type(error).__name__}: {str(error)}"
ErrorObservation(error) == s_vertex_error \o error.type \o s_colon \o error.message

\* BaseVertex._build_error_vote(error), every field
error_vote(name, error) ==
    [reasoning |-> s_Error_during \o Spelling(name) \o s_processing \o error.message,
     vertex_name |-> name,
     score |-> ErrorVoteScore,
     action_proposals |-> <<>>,
     observations |-> <<ErrorObservation(error)>>,
     attachments |-> [error |-> TRUE, error_type |-> error.type]]

\* MetabolicKernel._safe_vote(vertex, experience, context)
safe_vote_of(name, outcome) ==
    IF outcome.kind = "raise"
    THEN error_vote(name, outcome.error)
    ELSE [reasoning |-> s_fine] @@ build_vote(name, outcome.score, <<>>, <<>>, [ok |-> TRUE])

\* vote = await kernel._safe_vote(vertex, experience, context)
SafeVoteCall(name, outcome) ==
    /\ call' = [op |-> "safe_vote", name |-> name, outcome |-> outcome,
                vote |-> safe_vote_of(name, outcome)]
    /\ UNCHANGED outsideCall

(***************************************************************************)
(* vertices/orchestra_vertex.py: OrchestraVertex.vote called on its own    *)
(***************************************************************************)
\* the scores of the votes handed over, in hundredths (0.6 is not above 0.6)
OtherScores == {0, 60, 61}

\* the observations of the Mirror vote handed over
MirrorObservations ==
    {<<>>, <<"Self-reference depth">>, <<"drift detected">>,
     <<"Self-reference depth", "DRIFT DETECTED">>}

\* context["other_votes"]: for each of the four vertices no vote, or a VertexVote
Absent == 0 - 1
OtherVotesOf(scores, mirror_obs) ==
    LET names == SelectSeq(<<"ledger", "garden", "mirror", "compass">>,
                           LAMBDA n : scores[n] # Absent)
    IN [i \in 1..Len(names) |->
           [key |-> names[i],
            value |-> build_vote(names[i], scores[names[i]], <<>>,
                                 IF names[i] = "mirror" THEN mirror_obs ELSE <<>>,
                                 [ok |-> TRUE])]]

\* vote = await orchestra.vote(experience, {"other_votes": other_votes})
OrchestraVoteCall(scores, mirror_obs) ==
    /\ scores["mirror"] = Absent => mirror_obs = <<>>
    /\ call' = [op |-> "orchestra.vote",
                other_votes |-> OtherVotesOf(scores, mirror_obs),
                vote |-> OrchestraVote(OtherVotesOf(scores, mirror_obs))]
    /\ UNCHANGED outsideCall

(***************************************************************************)
(* vertices/base_vertex.py: _parse_json_response on the text of an LM reply *)
(* Texts are sequences of character codes; json.loads is modelled for      *)
(* objects, arrays, strings without escapes and unsigned integers.         *)
(***************************************************************************)
IsSpace(c) == c \in {32, 10}

RECURSIVE SkipSpace(_, _)
SkipSpace(s, i) == IF i <= Len(s) /\ IsSpace(s[i]) THEN SkipSpace(s, i + 1) ELSE i

\* str.strip()
RECURSIVE Strip(_)
Strip(s) ==
    IF s # <<>> /\ IsSpace(s[1]) THEN Strip(Tail(s))
    ELSE IF s # <<>> /\ IsSpace(s[Len(s)]) THEN Strip(SubSeq(s, 1, Len(s) - 1))
    ELSE s

\* str.find(sub, start), positions counted from 1: where sub first begins at or
\* after start, 0 when it does not
Find(s, sub, start) ==
    LET at == {i \in start..(Len(s) - Len(sub) + 1) : SubSeq(s, i, i + Len(sub) - 1) = sub}
    IN IF at = {} THEN 0 ELSE CHOOSE i \in at : \A j \in at : i <= j

RECURSIVE DigitsEnd(_, _)
DigitsEnd(s, i) ==
    IF i <= Len(s) /\ s[i] >= 48 /\ s[i] <= 57 THEN DigitsEnd(s, i + 1) ELSE i

\* the position after the string whose opening quote is at i, 0 when it never closes
StringEnd(s, i) ==
    LET close == Find(s, <<34>>, i + 1) IN IF close = 0 THEN 0 ELSE close + 1

\* the position after the JSON value that begins at i, 0 when none does
RECURSIVE ValueEnd(_, _)
RECURSIVE MembersEnd(_, _)
RECURSIVE ElementsEnd(_, _)
ValueEnd(s, i) ==
    IF i > Len(s) THEN 0
    ELSE IF s[i] >= 49 /\ s[i] <= 57 THEN DigitsEnd(s, i)
    ELSE IF s[i] = 48 THEN i + 1
    ELSE IF s[i] = 34 THEN StringEnd(s, i)
    ELSE IF s[i] = 123 THEN
        LET j == SkipSpace(s, i + 1)
        IN IF j <= Len(s) /\ s[j] = 125 THEN j + 1 ELSE MembersEnd(s, j)
    ELSE IF s[i] = 91 THEN
        LET j == SkipSpace(s, i + 1)
        IN IF j <= Len(s) /\ s[j] = 93 THEN j + 1 ELSE ElementsEnd(s, j)
    ELSE 0

\* "key": value, then a comma and more members, or the closing brace
MembersEnd(s, i) ==
    IF i > Len(s) \/ s[i] # 34 THEN 0
    ELSE LET k == StringEnd(s, i)
             c == IF k = 0 THEN 0 ELSE SkipSpace(s, k)
             v == IF c = 0 \/ c > Len(s) \/ s[c] # 58 THEN 0
                  ELSE ValueEnd(s, SkipSpace(s, c + 1))
             n == IF v = 0 THEN 0 ELSE SkipSpace(s, v)
         IN IF n = 0 \/ n > Len(s) THEN 0
            ELSE IF s[n] = 125 THEN n + 1
            ELSE IF s[n] = 44 THEN MembersEnd(s, SkipSpace(s, n + 1))
            ELSE 0

\* value, then a comma and more elements, or the closing bracket
ElementsEnd(s, i) ==
    LET v == ValueEnd(s, i)
        n == IF v = 0 THEN 0 ELSE SkipSpace(s, v)
    IN IF n = 0 \/ n > Len(s) THEN 0
       ELSE IF s[n] = 93 THEN n + 1
       ELSE IF s[n] = 44 THEN ElementsEnd(s, SkipSpace(s, n + 1))
       ELSE 0

\* whether json.loads(s) returns: one value, with nothing but whitespace around it
json_loads(s) ==
    LET e == ValueEnd(s, SkipSpace(s, 1))
    IN e # 0 /\ SkipSpace(s, e) = Len(s) + 1

s_fence == <<96, 96, 96>>
s_fence_json == <<96, 96, 96, 106, 115, 111, 110>>

\* the fenced-block step: the text between the opening fence and the next fence,
\* when there is a next fence after at least one character
FencedText(text, opening) ==
    LET start == Find(text, opening, 1) + Len(opening)
        end == Find(text, s_fence, start)
    IN IF end > start THEN Strip(SubSeq(text, start, end - 1)) ELSE text

ExtractFenced(text) ==
    IF Find(text, s_fence_json, 1) # 0 THEN FencedText(text, s_fence_json)
    ELSE IF Find(text, s_fence, 1) # 0 THEN FencedText(text, s_fence)
    ELSE text

\* re.search(r'\{[\s\S]*\}', text) and its bracket twin: the match runs from the
\* first opener to the last closer of the text (the star is greedy); <<>> is no match
GreedySpan(text, opener, closer) ==
    LET opens == {i \in 1..Len(text) : text[i] = opener}
        closes == {i \in 1..Len(text) : text[i] = closer}
        first == CHOOSE i \in opens : \A j \in opens : i <= j
        last == CHOOSE i \in closes : \A j \in closes : i >= j
    IN IF opens = {} \/ closes = {} THEN <<>>
       ELSE IF first < last THEN SubSeq(text, first, last) ELSE <<>>

\* BaseVertex._parse_json_response(response): the text that was parsed, or raised
parse_json_response(response) ==
    LET text == ExtractFenced(Strip(response))
        object == GreedySpan(text, 123, 125)
        array == GreedySpan(text, 91, 93)
    IN IF json_loads(text) THEN [raised |-> FALSE, parsed |-> Strip(text)]
       ELSE IF object # <<>> /\ json_loads(object) THEN [raised |-> FALSE, parsed |-> object]
       ELSE IF array # <<>> /\ json_loads(array) THEN [raised |-> FALSE, parsed |-> array]
       ELSE [raised |-> TRUE, parsed |-> <<>>]

\* replies of the LM
\* a JSON object and nothing else
t_plain_object ==
    <<123, 34, 97, 34, 58, 49, 125>>

\* an object in a block fenced with three backquotes and the word json
t_fenced_json ==
    <<96, 96, 96, 106, 115, 111, 110, 10, 123, 34, 97, 34, 58, 49, 125, 10,
      96, 96, 96>>

\* an array in a block fenced with three backquotes
t_fenced_plain ==
    <<96, 96, 96, 10, 91, 49, 44, 50, 93, 10, 96, 96, 96>>

\* an object inside prose
t_prose_object ==
    <<83, 117, 114, 101, 32, 123, 34, 97, 34, 58, 49, 125, 32, 111, 107>>

\* an array inside prose
t_prose_array ==
    <<83, 117, 114, 101, 32, 91, 49, 44, 50, 93, 32, 111, 107>>

\* two separate objects with prose around and between them
t_two_objects ==
    <<120, 32, 123, 34, 97, 34, 58, 49, 125, 32, 121, 32, 123, 34, 98, 34,
      58, 50, 125, 32, 122>>

\* a json fence that is never closed, then an object
t_open_fence ==
    <<96, 96, 96, 106, 115, 111, 110, 10, 123, 34, 97, 34, 58, 49, 125>>

\* a closed json fence holding no JSON, then an object
t_bad_fence_then_object ==
    <<96, 96, 96, 106, 115, 111, 110, 10, 123, 97, 10, 96, 96, 96, 10, 123,
      34, 97, 34, 58, 49, 125>>

\* prose only
t_no_json ==
    <<110, 111, 112, 101>>

\* an array of two objects inside prose
t_objects_in_array ==
    <<120, 32, 91, 123, 34, 97, 34, 58, 49, 125, 44, 123, 34, 98, 34, 58, 50,
      125, 93, 32, 121>>

\* an array, prose, an object
t_array_then_object ==
    <<91, 49, 93, 32, 116, 104, 101, 110, 32, 123, 34, 97, 34, 58, 49, 125>>

\* two separate arrays with prose between them
t_two_arrays ==
    <<91, 49, 93, 32, 97, 110, 100, 32, 91, 50, 93>>

\* braces used in the prose, then an object
t_braces_in_prose ==
    <<117, 115, 101, 32, 123, 97, 125, 32, 97, 115, 32, 123, 34, 97, 34, 58,
      49, 125>>

LMTexts ==
    {t_plain_object,
     t_fenced_json,
     t_fenced_plain,
     t_prose_object,
     t_prose_array,
     t_two_objects,
     t_open_fence,
     t_bad_fence_then_object,
     t_no_json,
     t_objects_in_array,
     t_array_then_object,
     t_two_arrays,
     t_braces_in_prose}

\* data = self._parse_json_response(response)
ParseJsonResponse(response) ==
    /\ call' = [op |-> "parse_json_response", text |-> response,
                result |-> parse_json_response(response)]
    /\ UNCHANGED outsideCall

(***************************************************************************)
(* kernel/metabolic_kernel.py: the context views of Phase 1                *)
(***************************************************************************)
\* the keys a caller may put into the context handed to process()
GlobalKeys ==
    {"identity_state", "self_model", "ledger_context", "garden_context",
     "ledger_memories", "garden_patterns"}

\* the global contexts: none of those keys, the documented ones, the peer fields
\* alone, or all of them, each with a value of the caller
GlobalContexts ==
    UNION {[keys -> {"given"}] :
              keys \in {{}, {"identity_state"}, {"identity_state", "self_model"},
                        GlobalKeys \ {"identity_state", "self_model"}, GlobalKeys}}

\* the Phase-1 vertices a kernel may have registered
Phase1Registered ==
    {{"ledger", "garden", "mirror", "compass"}, {"mirror", "compass"},
     {"ledger", "garden"}, {"mirror"}}

\* dict.get(key, {}) on the global context
ContextGet(global_context, key) ==
    IF key \in DOMAIN global_context THEN global_context[key] ELSE "empty"

\* the fields of a view that come from peer votes
PeerFields(vertex_name, collected_votes) ==
    CASE vertex_name = "mirror" ->
            (IF "ledger" \in DictKeys(collected_votes) THEN {"ledger_context"} ELSE {})
            \cup (IF "garden" \in DictKeys(collected_votes) THEN {"garden_context"} ELSE {})
      [] vertex_name = "garden" ->
            IF "ledger" \in DictKeys(collected_votes) THEN {"ledger_memories"} ELSE {}
      [] vertex_name = "compass" ->
            IF "garden" \in DictKeys(collected_votes) THEN {"garden_patterns"} ELSE {}
      [] OTHER -> {}

\* a builder that also hands on the peer fields it finds in the global context
build_vertex_context_passing(vertex_name, global_context, collected_votes) ==
    LET own == CASE vertex_name = "mirror" -> {"identity_state", "self_model"}
                 [] vertex_name = "compass" -> {"identity_context"}
                 [] OTHER -> {}
        passed == DOMAIN global_context \cap
                     {"ledger_context", "garden_context", "ledger_memories", "garden_patterns"}
    IN [k \in own \cup passed |-> "given"]

\* MetabolicKernel._build_vertex_context, keys and values: what comes from the
\* global context is read with .get(key, {}), what comes from peers is "peer"
build_vertex_context_view(vertex_name, global_context, collected_votes) ==
    LET peers == PeerFields(vertex_name, collected_votes)
        own == CASE vertex_name = "mirror" -> {"identity_state", "self_model"}
                 [] vertex_name = "compass" -> {"identity_context"}
                 [] OTHER -> {}
    IN [k \in own \cup peers |->
           IF k \in peers THEN "peer"
           ELSE IF k = "identity_context" THEN ContextGet(global_context, "identity_state")
           ELSE ContextGet(global_context, k)]

\* process(experience, context), lines 116-125: the view built for each registered
\* Phase-1 vertex, with the empty dict as collected votes
Phase1Contexts(registered, global_context) ==
    /\ call' = [op |-> "phase1_contexts", global_context |-> global_context,
                views |-> [name \in registered |->
                              build_vertex_context_view(name, global_context, <<>>)]]
    /\ UNCHANGED outsideCall

VertexNext ==
    \/ \E mm \in MemoryManagers, message \in Messages, retrieval \in Retrievals :
          LedgerVoteCall(mm, message, retrieval)
    \/ \E name \in VertexName, outcome \in VoteOutcomes : SafeVoteCall(name, outcome)
    \/ \E scores \in [{"ledger", "garden", "mirror", "compass"} -> OtherScores \cup {Absent}],
          mirror_obs \in MirrorObservations : OrchestraVoteCall(scores, mirror_obs)
    \/ \E response \in LMTexts : ParseJsonResponse(response)
    \/ \E registered \in Phase1Registered,
          global_context \in GlobalContexts : Phase1Contexts(registered, global_context)

VertexSpec == TopologyInit /\ [][VertexNext]_vars

(***************************************************************************)
(* Two process() calls on one kernel, started in any order and at any time *)
(***************************************************************************)
\* a complete Pentagram, or one without Garden, with or without a synthesis LM
ConcurrentInit ==
    /\ ProcessIdle
    /\ vertices \in {VertexName, VertexName \ {"garden"}}
    /\ llm_provider \in BOOLEAN
    /\ TopologyIdle
    /\ AnalyzerIdle
    /\ MonitorIdle

ConcurrentNext ==
    \E c \in Calls :
        \/ StartCycle(c)
        \/ \E name \in VertexName : RunTask(c, name)
        \/ AwaitNext(c)
        \/ OrchestraVotes(c)
        \/ AnalyzeTensions(c)
        \/ Synthesize(c)
        \/ FinishCycle(c)

ConcurrentSpec == ConcurrentInit /\ [][ConcurrentNext]_vars

(***************************************************************************)
(* process() on a registered Pentagram, with a caller that may cancel it   *)
(* while it awaits a Phase-1 task                                          *)
(***************************************************************************)
CancelInit ==
    /\ ProcessIdle
    /\ vertices \in {VertexName, {"ledger", "compass", "orchestra"}}
    /\ llm_provider = FALSE
    /\ TopologyIdle
    /\ AnalyzerIdle
    /\ MonitorIdle

CancelNext ==
    \/ ProcessStart
    \/ \E name \in VertexName : TaskRun(name)
    \/ AwaitTask
    \/ CancelProcess
    \/ \E name \in VertexName : OrphanRun(name)
    \/ OrphansGone
    \/ OrchestraPhase
    \/ TensionPhase
    \/ SynthesisPhase
    \/ ProcessReturn

CancelSpec == CancelInit /\ [][CancelNext]_vars

(***************************************************************************)
(* A loaded IdentityTopology whose apply_change and check_drift are called *)
(* from two threads                                                        *)
(***************************************************************************)
\* a healthy reading and one with low coherence
ThreadSignals ==
    {[invariant_alignment |-> 100, coherence |-> c, value_misalignment |-> 0,
      relationship_integrity |-> 100] : c \in {60, 100}}

ThreadsInit ==
    /\ ThreadsIdle
    /\ state \in {from_scar_json(doc) : doc \in ScarDocs}
    /\ pending_proposals = <<>>
    /\ consecutive_repair_failures = 0
    /\ ret = [op |-> "load"]
    /\ drift_log = <<>>
    /\ KernelIdle
    /\ llm_provider = FALSE
    /\ AnalyzerIdle
    /\ MonitorIdle

ThreadsNext ==
    \/ \E t \in Threads :
          \/ \E p \in Proposals : ApplyAppend(t, p)
          \/ ApplySplit(t)
          \/ ApplyStore(t)
    \/ \E sig \in ThreadSignals : CheckDrift(sig) /\ UNCHANGED threads

ThreadsSpec == ThreadsInit /\ [][ThreadsNext]_vars

(***************************************************************************)
(* DevelopmentMonitor: record_cycle and get_development_level              *)
(***************************************************************************)
\* the votes of a PentagramResult whose Mirror reports self_reference_depth `depth`
\* and meta_cognitive_moment `meta` and proposes `updates` self-model updates, whose
\* Garden found `cross` cross-domain patterns and one that is not, and whose Ledger
\* retrieved `retrieved` memory groups
ResultVotes(c) ==
    IF c.empty THEN <<>>
    ELSE <<[key |-> "ledger",
            value |-> [vertex_name |-> "ledger", score |-> 100,
                       action_proposals |-> <<"store">>, observations |-> <<>>,
                       attachments |-> [retrieval_count |-> c.retrieved,
                                        store_queued |-> TRUE]]],
           [key |-> "garden",
            value |-> [vertex_name |-> "garden", score |-> 50,
                       action_proposals |-> <<>>, observations |-> <<>>,
                       attachments |->
                           [patterns |-> [i \in 1..c.cross |-> [cross_domain |-> TRUE]]
                                          \o <<[cross_domain |-> FALSE]>>]]],
           [key |-> "mirror",
            value |-> [vertex_name |-> "mirror", score |-> 50,
                       action_proposals |-> [i \in 1..c.updates |-> "update_self_model"]
                                            \o <<"identity_repair">>,
                       observations |-> <<>>,
                       attachments |-> [self_reference_depth |-> c.depth,
                                        meta_cognitive_moment |-> c.meta]]]>>

Cycle(empty, depth, meta, updates, cross, retrieved) ==
    [empty |-> empty, depth |-> depth, meta |-> meta, updates |-> updates,
     cross |-> cross, retrieved |-> retrieved]

\* a result without votes; a quiet cycle; a deep self-reference; a meta-cognitive
\* moment with cross-domain patterns; every indicator at its maximum; and a Mirror
\* whose LM reports a depth above, or below, the 0..5 of its prompt
QuietCycle == Cycle(FALSE, 0, FALSE, 0, 0, 0)
MonitorCycles ==
    {Cycle(TRUE, 0, FALSE, 0, 0, 0),
     QuietCycle,
     Cycle(FALSE, 3, FALSE, 0, 0, 1),
     Cycle(FALSE, 0, TRUE, 1, 2, 0),
     Cycle(FALSE, 5, TRUE, 2, 3, 5),
     Cycle(FALSE, 30, FALSE, 0, 0, 0),
     Cycle(FALSE, -5, FALSE, 0, 0, 0)}

\* monitor.record_cycle(result)
RecordCycle(c) ==
    /\ cycle_count < MaxCycles
    /\ record_cycle(ResultVotes(c))

\* DevelopmentMonitor(window_size) for a small window
WindowSizes == {0, 1, 2}
MonitorInit ==
    /\ TopologyIdle
    /\ KernelIdle
    /\ llm_provider = FALSE
    /\ AnalyzerIdle
    /\ window_size \in WindowSizes
    /\ MonitorFresh

MonitorNext ==
    \/ \E c \in MonitorCycles : RecordCycle(c)
    \/ GetDevelopmentLevel

MonitorSpec == MonitorInit /\ [][MonitorNext]_vars

(***************************************************************************)
(* DevelopmentMonitor with a window long enough for the trend: mostly      *)
(* quiet cycles, and a few in which Mirror reports a self-reference depth  *)
(***************************************************************************)
TrendCycles ==
    {QuietCycle, Cycle(FALSE, 5, FALSE, 0, 0, 0), Cycle(FALSE, 1, FALSE, 0, 0, 0)}

Eventful(s) == growth_signal(s) # 0

\* monitor.record_cycle(result), at most MaxEventful of them with a growth signal
TrendRecord(c) ==
    /\ cycle_count < MaxTrendCycles
    /\ c # QuietCycle => Len(SelectSeq(cycle_log, Eventful)) < MaxEventful
    /\ record_cycle(ResultVotes(c))

TrendInit ==
    /\ TopologyIdle
    /\ KernelIdle
    /\ llm_provider = FALSE
    /\ AnalyzerIdle
    /\ window_size = TrendWindow
    /\ MonitorFresh

TrendNext ==
    \/ \E c \in TrendCycles : TrendRecord(c)
    \/ GetDevelopmentLevel

TrendSpec == TrendInit /\ [][TrendNext]_vars

(***************************************************************************)
(* DevelopmentMonitor() with its default window, run past the window's     *)
(* capacity: quiet cycles, and at most one with a self-reference depth     *)
(***************************************************************************)
WindowRecord(c) ==
    /\ cycle_count < MaxWindowCycles
    /\ c # QuietCycle => Len(SelectSeq(cycle_log, Eventful)) < 1
    /\ record_cycle(ResultVotes(c))

WindowNext ==
    \/ \E c \in {QuietCycle, Cycle(FALSE, 5, FALSE, 0, 0, 0)} : WindowRecord(c)
    \/ GetDevelopmentLevel

WindowSpec == TopologyInit /\ [][WindowNext]_vars


(***************************************************************************)
(* Properties of the kernel (Spec, FairSpec)                               *)
(***************************************************************************)
Phase1Names == {"ledger", "garden", "mirror", "compass"}
Failed(name) == behaviour[name].kind \in {"raise", "fail"}

\* C1: whichever registered vertices raise from vote(), the returned result has
\* exactly one vote per registered vertex, filed under that vertex's own name, a
\* synthesis is present, and the vote of a vertex that did not fail is not
\* replaced by an error vote.
C1_OneVotePerRegisteredVertex ==
    result.returned =>
        /\ DictKeys(result.votes) = vertices
        /\ Len(result.votes) = Cardinality(vertices)
        /\ \A i \in 1..Len(result.votes) :
              result.votes[i].value.vertex_name = result.votes[i].key
        /\ result.synthesis # NoSynthesis
        /\ \A n \in vertices : ~Failed(n) => ~IsErrorVote(DictGet(result.votes, n))

\* C1 happens: five vertices registered, some raised, some did not, result returned
C1_Witness ==
    /\ result.returned
    /\ vertices = VertexName
    /\ behaviour["garden"].kind = "raise"
    /\ behaviour["orchestra"].kind = "raise"
    /\ behaviour["mirror"].kind = "vote"
    /\ Len(result.votes) = 5

\* C2: a started cycle completes, whatever the vertices and the synthesis LM do
C2_CycleTerminates == (pc = "phase1") ~> (pc = "done" /\ result.returned)

\* C2 happens: a cycle with every vertex raising and the LM call raising has ended
C2_Witness ==
    /\ pc = "done"
    /\ vertices = VertexName
    /\ \A n \in VertexName : behaviour[n].kind = "raise"
    /\ llm_provider
    /\ synthesis.mode = "heuristic"

\* C3 (as stated): when every Phase-1 vertex fails, at most one vote (Orchestra's)
\* counts as successful, the synthesis is present and growth_delta is >= 0.
C3_AtMostOrchestraSucceeds ==
    (/\ result.returned
     /\ Phase1Names \subseteq vertices
     /\ \A n \in Phase1Names : Failed(n))
    => /\ result.successful_votes <= 1
       /\ result.has_synthesis
       /\ result.synthesis.growth_delta >= 0

\* C10: every vote of a returned result has its score in [0, 1]; a vertex that
\* computed a score has a vote with that score, moved to the nearer bound when
\* it was outside; a failed vertex has an error vote with score 0.
C10_ScoresInUnitInterval ==
    result.returned =>
        \A i \in 1..Len(result.votes) :
            LET v == result.votes[i].value
                b == behaviour[result.votes[i].key]
            IN /\ v.score >= 0 /\ v.score <= 100
               /\ IsErrorVote(v) => v.score = 0
               /\ b.kind \in {"raise", "fail"} => IsErrorVote(v)
               /\ (b.kind = "vote" /\ result.votes[i].key \in {"garden", "mirror", "compass"})
                    => /\ ~IsErrorVote(v)
                       /\ v.score = IF b.score < 0 THEN 0
                                    ELSE IF b.score > 100 THEN 100 ELSE b.score

\* C10 happens: one vertex computed a score above 1, another one below 0
C10_Witness ==
    /\ result.returned
    /\ "garden" \in vertices /\ behaviour["garden"] = [kind |-> "vote", score |-> 130, flag |-> FALSE]
    /\ "mirror" \in vertices /\ behaviour["mirror"] = [kind |-> "vote", score |-> -20, flag |-> FALSE]
    /\ DictGet(result.votes, "garden").score = 100
    /\ DictGet(result.votes, "mirror").score = 0
    /\ "compass" \in vertices /\ Failed("compass")


\* a step in which Orchestra's vote() is called, the tension analysis is run, or
\* the synthesis is run
OrchestraStarts == ~orchestra_ctx.called /\ orchestra_ctx'.called
TensionsStart == "phase3_tensions" \notin timings /\ "phase3_tensions" \in timings'
SynthesisStarts == "phase4_synthesis" \notin timings /\ "phase4_synthesis" \in timings'

\* C18: within one process() call, Orchestra's vote() is called only when every
\* Phase-1 task of the call has finished, and the other_votes of its context are
\* exactly the votes of the registered Phase-1 vertices; the tension analysis runs
\* only after Orchestra (when registered) has voted; the synthesis runs only after
\* the tension analysis.
C18_PhasesInOrder ==
    [][/\ OrchestraStarts =>
            /\ \A i \in 1..Len(parallel_tasks) : parallel_tasks[i].value.done
            /\ DictKeys(orchestra_ctx'.other_votes) = vertices \cap Phase1Names
            /\ \A i \in 1..Len(parallel_tasks) :
                  DictGet(orchestra_ctx'.other_votes, parallel_tasks[i].key)
                      = parallel_tasks[i].value.vote
            /\ "phase3_tensions" \notin timings'
       /\ TensionsStart =>
            /\ "phase2_orchestra" \in timings
            /\ "orchestra" \in vertices =>
                   orchestra_ctx.called /\ "orchestra" \in DictKeys(votes)
            /\ "phase4_synthesis" \notin timings'
       /\ SynthesisStarts => "phase3_tensions" \in timings
      ]_vars

\* a cycle of all five vertices has run to its result: Orchestra saw four votes,
\* tensions were found and a synthesis made
C18_Witness ==
    /\ result # NoResult
    /\ orchestra_ctx.called
    /\ Len(orchestra_ctx.other_votes) = 4
    /\ Len(result.votes) = 5
    /\ result.tensions # <<>>
    /\ result.has_synthesis

\* C21: no Phase-1 task outlives its phase: once process() has left Phase 1, by
\* joining every task or by being cancelled while it awaited one, every task it
\* created has ended.
C21_NoTaskOutlivesPhase1 ==
    pc \notin {"idle", "phase1"} =>
        \A i \in 1..Len(parallel_tasks) : parallel_tasks[i].value.done

(***************************************************************************)
(* Properties of concurrent cycles (ConcurrentSpec)                        *)
(***************************************************************************)
\* the votes dict of call c as its vertices' outputs determine it: the registered
\* Phase-1 vertices in the order of parallel_vertices, then Orchestra
ExpectedPhase1(c) ==
    LET names == SelectSeq(parallel_vertices, LAMBDA n : n \in vertices)
    IN [i \in 1..Len(names) |->
           [key |-> names[i],
            value |-> safe_vote_on(c, names[i], cycles[c].behaviour[names[i]],
                                   build_vertex_context(names[i], <<>>)).vote]]
ExpectedVotes(c) ==
    IF "orchestra" \in vertices
    THEN Append(ExpectedPhase1(c),
                [key |-> "orchestra",
                 value |-> safe_vote_on(c, "orchestra", cycles[c].behaviour["orchestra"],
                                        ExpectedPhase1(c)).vote])
    ELSE ExpectedPhase1(c)

\* C19: the content of a returned PentagramResult is determined by what the
\* vertices output, whatever order the Phase-1 tasks finished in: the votes are
\* keyed by vertex name and stand in the order in which the tasks were created,
\* the tensions are those of these votes in the same order, and the synthesis is
\* the one made from them.
C19_CompletionOrderIrrelevant ==
    \A c \in Calls :
        cycles[c].result # NoResult =>
            LET r == cycles[c].result
                expected == ExpectedVotes(c)
            IN /\ r.votes = expected
               /\ r.tensions = analyze(expected)
               /\ \E reply \in LLMReplies :
                     r.synthesis = synthesize(expected, analyze(expected), llm_provider, reply)

\* a result of five votes with tensions, from a cycle in which a task finished
\* before one that was created earlier
C19_Witness ==
    \E c \in Calls :
        /\ cycles[c].result # NoResult
        /\ cycles[c].overtaken
        /\ Len(cycles[c].result.votes) = 5
        /\ Len(cycles[c].result.tensions) >= 2

StageKeys == {"phase1_parallel", "phase2_orchestra", "phase3_tensions",
              "phase4_synthesis", "total"}

\* C20: two process() calls that run concurrently on one kernel do not interfere:
\* at every moment the votes a call holds are votes on its own experience, and
\* its result has one vote per registered vertex, each the output of that vertex
\* in this call, the tensions of these votes, no errors, its own timings and a
\* synthesis of its own tensions.
C20_CyclesDoNotInterfere ==
    \A c \in Calls :
        /\ \A i \in 1..Len(cycles[c].votes) : cycles[c].votes[i].value.reasoning = c
        /\ cycles[c].result # NoResult =>
              LET r == cycles[c].result
              IN /\ DictKeys(r.votes) = vertices
                 /\ \A i \in 1..Len(r.votes) :
                       /\ r.votes[i].value.reasoning = c
                       /\ r.votes[i].value = DictGet(ExpectedVotes(c), r.votes[i].key)
                 /\ r.tensions = analyze(r.votes)
                 /\ r.errors = <<>>
                 /\ r.timings = StageKeys \cup {n \o "_vote" : n \in vertices \cap Phase1Names}
                 /\ r.synthesis.tensions_resolved = r.tensions

\* both calls have run while the other was running, on vertices that behaved
\* differently for the two experiences, and both have returned
C20_Witness ==
    /\ \A c \in Calls : cycles[c].result # NoResult /\ cycles[c].overlapped
    /\ cycles["a"].behaviour # cycles["b"].behaviour
    /\ cycles["a"].result.tensions # cycles["b"].result.tensions

(***************************************************************************)
(* Properties of the tension analyzer (TensionSpec)                        *)
(***************************************************************************)
\* the axis table as the documentation reads it: one dimension per unordered pair
AxisOfPair ==
    ({"ledger", "garden"} :> "storage_vs_pruning")
    @@ ({"ledger", "mirror"} :> "recording_vs_reflecting")
    @@ ({"ledger", "compass"} :> "preservation_vs_direction")
    @@ ({"garden", "mirror"} :> "pattern_vs_identity")
    @@ ({"garden", "compass"} :> "meaning_vs_value")
    @@ ({"mirror", "compass"} :> "self_relevance_vs_strategic_value")

\* C4 (as stated): every tension analyze emits for a pair of content vertices
\* carries the dimension the axis table gives that pair, in whichever order the
\* two votes were listed.
C4_DimensionFromAxisTable ==
    ta_out.analyzed =>
        \A i \in 1..Len(ta_out.tensions) :
            LET t == ta_out.tensions[i]
            IN t.dimension = AxisOfPair[{t.vertex_a, t.vertex_b}]

\* the scores of the two votes of a tension, as handed to analyze
ScoreGap(t) ==
    Abs(DictGet(ta_votes, t.vertex_a).score - DictGet(ta_votes, t.vertex_b).score)

\* C11: no tension names Orchestra, no tension names one vertex twice, and the
\* votes of Ledger and Orchestra alone give no tension.
C11_OrchestraExcluded ==
    ta_out.analyzed =>
        /\ \A i \in 1..Len(ta_out.tensions) :
              /\ ta_out.tensions[i].vertex_a # "orchestra"
              /\ ta_out.tensions[i].vertex_b # "orchestra"
              /\ ta_out.tensions[i].vertex_a # ta_out.tensions[i].vertex_b
        /\ DictKeys(ta_votes) = {"ledger", "orchestra"} => ta_out.tensions = <<>>

\* C11 happens: ledger 1.0 and orchestra 0.1 were analyzed and gave no tension
C11_Witness ==
    /\ ta_out.analyzed
    /\ DictKeys(ta_votes) = {"ledger", "orchestra"}
    /\ DictGet(ta_votes, "ledger").score = 100
    /\ DictGet(ta_votes, "orchestra").score = 10
    /\ ta_out.tensions = <<>>

C13_SortedByMagnitude ==
    ta_out.analyzed =>
        \A i \in 1..Len(ta_out.tensions) : \A j \in i..Len(ta_out.tensions) :
            ta_out.tensions[i].magnitude >= ta_out.tensions[j].magnitude

\* C13 happens: a boost has put a pair with the smaller score gap in front of a
\* pair with the larger one
C13_Witness ==
    /\ ta_out.analyzed
    /\ Len(ta_out.tensions) >= 2
    /\ \E i \in 1..Len(ta_out.tensions) : \E j \in (i + 1)..Len(ta_out.tensions) :
          /\ ScoreGap(ta_out.tensions[i]) < ScoreGap(ta_out.tensions[j])
          /\ ta_out.tensions[i].magnitude > ta_out.tensions[j].magnitude
          /\ ta_out.tensions[i].resolution_hint.identity_repair

\* C14 (as stated): when one vote of a tension's pair proposes store and the
\* other prune, whichever of the two is listed first, the magnitude is the score
\* gap plus 0.10, capped at 1.0, and the hint has the store-vs-prune sentence
\* (pairs with an identity_repair proposal, which adds its own boost, left aside).
C14_StorePruneEitherOrientation ==
    ta_out.analyzed =>
        \A i \in 1..Len(ta_out.tensions) :
            LET t == ta_out.tensions[i]
                a == ActionTypes(DictGet(ta_votes, t.vertex_a))
                b == ActionTypes(DictGet(ta_votes, t.vertex_b))
            IN (/\ ("store" \in a /\ "prune" \in b) \/ ("prune" \in a /\ "store" \in b)
                /\ "identity_repair" \notin a \cup b)
               => /\ t.magnitude = Min(100, ScoreGap(t) + 10)
                  /\ t.resolution_hint.store_vs_prune

(***************************************************************************)
(* Properties of the identity topology (TopologySpec, DriftSpec)           *)
(***************************************************************************)
\* the region is a case-insensitive substring of some invariant key or name
Touches(st, region) ==
    \E key \in DOMAIN st.invariants :
        \/ IsSubstring(Lower(region), Lower(key))
        \/ IsSubstring(Lower(region), Lower(st.invariants[key].name))

Validated == ret.op \in {"validate_change", "propose_change"}

Applied == ret'.op = "apply_change" /\ ret'.success

\* C9 (as stated): a successful apply_change leaves the final segment of version
\* greater than before in string order, and update_history one longer.
C9_FinalSegmentGrowsAsString ==
    [][Applied =>
          /\ StrLess(LastSegment(state.version), LastSegment(state'.version))
          /\ Len(state'.update_history) = Len(state.update_history) + 1]_vars

\* C9 (amended): a successful apply_change leaves the final segment of version,
\* read as a decimal number, greater by exactly one, the segments before it as
\* they were, and update_history one longer.
C9_FinalSegmentGrowsByOne ==
    [][Applied =>
          /\ ParseInt(LastSegment(state'.version)) = ParseInt(LastSegment(state.version)) + 1
          /\ Len(Split(state'.version, Ord(".")))  = Len(Split(state.version, Ord(".")))
          /\ \A i \in 1..(Len(Split(state.version, Ord("."))) - 1) :
                Split(state'.version, Ord("."))[i] = Split(state.version, Ord("."))[i]
          /\ Len(state'.update_history) = Len(state.update_history) + 1]_vars

\* C9 happens: the same change was applied twice and the version went 8, 9, 10
C9_Witness ==
    /\ ret.op = "apply_change"
    /\ ret.success
    /\ Len(state.update_history) = 2
    /\ state.update_history[1].region = state.update_history[2].region
    /\ state.version = Str(<<"1", ".", "0", ".", "1", "0">>)

Checked == ret.op = "check_drift" /\ ret.loaded

\* C7 (as stated): a check on a loaded topology reports needs_repair, with a
\* positive deviation_score, exactly when one of the four signals crosses its
\* threshold: 1 - invariant_alignment > 0.2, coherence < 0.8,
\* value_misalignment > 0.15, relationship_integrity < 0.9.
C7_RepairIffThresholdCrossed ==
    Checked =>
        LET sig == ret.signals
            crossed == \/ 100 - sig.invariant_alignment > 20
                       \/ sig.coherence < 80
                       \/ sig.value_misalignment > 15
                       \/ sig.relationship_integrity < 90
        IN /\ ret.report.needs_repair <=> crossed
           /\ ret.report.needs_repair <=> ret.report.deviation_score > 0

\* the length of the run of TRUE at the end of the log
TrailingFailures(log) ==
    LET healthy == {i \in 1..Len(log) : ~log[i]}
    IN IF healthy = {} THEN Len(log)
       ELSE Len(log) - (CHOOSE i \in healthy : \A j \in healthy : j <= i)

\* C8: the report's consecutive_failures is the length of the run of checks,
\* this one included, that needed repair; a check that needs none gives 0; the
\* alert is raised exactly from alert_ryan_after_failures on.
C8_ConsecutiveFailures ==
    /\ consecutive_repair_failures = TrailingFailures(drift_log)
    /\ Checked =>
          /\ drift_log # <<>>
          /\ ret.report.needs_repair = drift_log[Len(drift_log)]
          /\ ret.report.consecutive_failures = TrailingFailures(drift_log)
          /\ ~ret.report.needs_repair => ret.report.consecutive_failures = 0
          /\ ret.report.alert_ryan <=> ret.report.consecutive_failures >= 3

\* C8 happens: a healthy check, then three unhealthy ones, the last with the alert
C8_Witness ==
    /\ Checked
    /\ drift_log = <<FALSE, TRUE, TRUE, TRUE>>
    /\ ret.signals = [invariant_alignment |-> 50, coherence |-> 60,
                      value_misalignment |-> 30, relationship_integrity |-> 70]
    /\ ret.report.consecutive_failures = 3
    /\ ret.report.alert_ryan

(***************************************************************************)
(* Properties of the development monitor (MonitorSpec, TrendSpec)          *)
(***************************************************************************)
Levelled == mon_ret.op = "get_development_level"

\* C15: get_development_level returns a level within [0.05, 0.15] whenever the
\* window holds a snapshot, whatever the recorded results carried, and level 0.05,
\* trend stable and confidence 0.0 when the window is empty.
C15_LevelWithinBaseline ==
    Levelled =>
        IF snapshots = <<>>
        THEN mon_ret.level = 500 /\ mon_ret.trend = "stable" /\ mon_ret.confidence = 0
        ELSE mon_ret.level >= 500 /\ mon_ret.level <= 1500

\* the sum of the growth signals of the snapshots from..to of the window
WindowSum(from, to) == SumSeq([i \in 1..(to - from + 1) |-> growth_signal(snapshots[from + i - 1])])

\* C16: with twenty or more snapshots the trend is growing when the mean signal of
\* the last ten exceeds that of the ten before by 0.02 or more, declining when it
\* falls short by 0.02 or more, and stable otherwise; with fewer than twenty
\* snapshots it is stable.  (A difference of 0.02 between the means is a
\* difference of 600 between the sums, in units of 1/3000.)
C16_TrendBoundariesIncluded ==
    Levelled =>
        LET n == Len(snapshots)
            diff == WindowSum(n - 9, n) - WindowSum(n - 19, n - 10)
        IN IF n >= 20
           THEN mon_ret.trend = (IF diff >= 600 THEN "growing"
                                 ELSE IF diff <= -600 THEN "declining"
                                 ELSE "stable")
           ELSE mon_ret.trend = "stable"

MilestoneTypes == {"first_meta_cognitive", "first_cross_domain", "deep_self_reference"}
Satisfies(type, s) ==
    CASE type = "first_meta_cognitive" -> s.meta_cognitive_moment
      [] type = "first_cross_domain" -> s.novel_connection_count > 0
      [] OTHER -> s.self_reference_depth >= 3
Entries(type) == SelectSeq(milestones, LAMBDA m : m.type = type)
SatisfyingCycles(type) == {k \in 1..Len(cycle_log) : Satisfies(type, cycle_log[k])}

\* C17: every milestone type is in the milestone list at most once; it is there as
\* soon as a recorded snapshot satisfied its condition, carries the cycle number
\* of the first such snapshot, and stays there when that snapshot has left the
\* window.
C17_MilestonesOnceAndKept ==
    \A type \in MilestoneTypes :
        LET sat == SatisfyingCycles(type)
        IN IF sat = {}
           THEN Entries(type) = <<>>
           ELSE /\ Len(Entries(type)) = 1
                /\ Entries(type)[1].cycle = CHOOSE k \in sat : \A j \in sat : k <= j

\* a milestone whose snapshot has left a full window of two, and whose condition a
\* later cycle satisfied again
C17_Witness ==
    /\ window_size = 2
    /\ Len(snapshots) = 2
    /\ \E i \in 1..Len(milestones) :
          /\ milestones[i].cycle <= cycle_count - 2
          /\ \E k \in SatisfyingCycles(milestones[i].type) : k > milestones[i].cycle

RECURSIVE Bumped(_, _)
Bumped(version, n) == IF n = 0 THEN version ELSE Bumped(BumpVersion(version), n - 1)

\* C22: calls of apply_change and check_drift made by concurrent callers behave
\* like some serial order, so that no update is lost: once the calls have
\* returned, n successful apply_change calls have left n new history entries and
\* a final version segment advanced by n, and the failure counter is the length
\* of the trailing run of checks that needed repair.
C22_NoUpdateLost ==
    ThreadsIdle =>
        LET n == Len(state.update_history)
        IN /\ state.loaded => \E doc \in ScarDocs : state.version = Bumped(doc.version, n)
           /\ consecutive_repair_failures = TrailingFailures(drift_log)

\* C23: propose_change appends the proposal to the pending queue exactly when
\* validation approved it or flagged it for human approval, and leaves the queue
\* as it was for a rejected proposal; clear_pending returns the number of queued
\* proposals and empties the queue, so a second call right after returns 0.
C23_QueueDiscipline ==
    [][/\ ret'.op = "propose_change" =>
             pending_proposals' =
                 IF ret'.result.status \in {"approved", "pending"}
                 THEN Append(pending_proposals, ret'.proposal)
                 ELSE pending_proposals
       /\ ret'.op = "clear_pending" =>
             /\ ret'.count = Len(pending_proposals)
             /\ pending_proposals' = <<>>
             /\ ret.op = "clear_pending" => ret'.count = 0
      ]_vars

\* clear_pending has just emptied a queue that held a proposal
C23_Witness ==
    /\ ret.op = "clear_pending"
    /\ ret.count >= 1
    /\ pending_proposals = <<>>

\* C24: every report of check_drift, on a loaded topology or not, has
\* needs_repair exactly when its deviation_score is positive, and a
\* deviation_score within [0, 1].
C24_NeedsRepairIffDeviation ==
    ret.op = "check_drift" =>
        /\ ret.report.needs_repair <=> ret.report.deviation_score > 0
        /\ ret.report.deviation_score >= 0
        /\ ret.report.deviation_score <= 100

\* a check whose value_misalignment exceeds its threshold by more than 1.0
C24_Witness ==
    /\ Checked
    /\ ret.signals.value_misalignment - state.repair_protocol.value_misalignment_threshold > 100
    /\ ret.report.needs_repair
    /\ ret.report.deviation_score = 100

\* C28: load() accepts a scar document only when at least one invariant was
\* parsed from it: after a load that returned, the topology is loaded and
\* holds a positive number of invariants.
C28_LoadRejectsZeroInvariants ==
    ret.op = "load" =>
        /\ state.loaded
        /\ Cardinality(DOMAIN state.invariants) > 0

C30_FirstMatchingRule ==
    call.op = "orchestra.vote" =>
        LET ov == call.other_votes
            drift == \E i \in 1..Len(ov) :
                        /\ ov[i].key = "mirror"
                        /\ \E j \in 1..Len(ov[i].value.observations) :
                              ov[i].value.observations[j] = "DRIFT DETECTED"
            growth == \E i \in 1..Len(ov) : ov[i].value.score > 60
            v == call.vote
        IN /\ v.score = 50
           /\ v.action_proposals = <<"expression_guidance">>
           /\ drift =>
                 /\ v.attachments.expression_tone = "reflective_concerned"
                 /\ v.attachments.share_self_observations
           /\ (~drift /\ growth) =>
                 /\ v.attachments.expression_tone = "engaged_exploratory"
                 /\ v.attachments.share_self_observations
           /\ (~drift /\ ~growth) =>
                 /\ v.attachments.expression_tone = "natural_conversational"
                 /\ ~v.attachments.share_self_observations

\* drift and growth together: the drift rule wins
C30_Witness ==
    /\ call.op = "orchestra.vote"
    /\ \E i \in 1..Len(call.other_votes) :
          /\ call.other_votes[i].key = "mirror"
          /\ call.other_votes[i].value.observations = <<"Self-reference depth", "DRIFT DETECTED">>
    /\ \E i \in 1..Len(call.other_votes) : call.other_votes[i].value.score = 61
    /\ call.vote.attachments.expression_tone = "reflective_concerned"

\* C27: every result of process() carries a synthesis whose growth_delta lies in
\* [0.0, 0.1] (0..1000 in units of 0.0001); without a usable LM reply the
\* synthesis is the heuristic one, whose growth_delta is the average vote
\* score times 0.1.
C27_GrowthDeltaBounded ==
    result.returned =>
        LET syn == result.synthesis
            n == Len(result.votes)
        IN /\ result.has_synthesis
           /\ syn.mode \in {"llm", "heuristic"}
           /\ ~llm_provider => syn.mode = "heuristic"
           /\ syn.growth_delta >= 0
           /\ syn.growth_delta <= 1000
           /\ syn.mode = "heuristic" =>
                 syn.growth_delta =
                     IF n = 0 THEN 0 ELSE RoundDiv(10 * SumScores(result.votes), n)

\* the LM is configured, its call or its reply failed, and the result carries
\* the heuristic synthesis
C27_Witness ==
    /\ result.returned
    /\ llm_provider
    /\ result.synthesis.mode = "heuristic"
    /\ result.synthesis.growth_delta > 0

\* a balanced JSON object or array begins somewhere in the text
ContainsJson(text) ==
    \E i \in 1..Len(text) : text[i] \in {123, 91} /\ ValueEnd(text, i) # 0

\* C29: _parse_json_response succeeds whenever the text of the LM holds a
\* balanced JSON object or array (a malformed fenced block or several separate
\* objects in prose included), and raises only when none parses.
C29_SucceedsOnEmbeddedJson ==
    (call.op = "parse_json_response" /\ ContainsJson(call.text)) =>
        /\ ~call.result.raised
        /\ ContainsJson(call.result.parsed)

\* C31: in a heuristic synthesis response_guidance always has the two keys tone
\* and share_self: Orchestra's expression_tone and share_self_observations, or
\* "natural" and false when Orchestra's vote or those attachments are missing.
C31_GuidanceHasToneAndShareSelf ==
    (result.returned /\ result.synthesis.mode = "heuristic") =>
        LET guidance == result.synthesis.response_guidance
            att == IF "orchestra" \in DictKeys(result.votes)
                   THEN DictGet(result.votes, "orchestra").attachments
                   ELSE <<>>
        IN /\ DOMAIN guidance = {"tone", "share_self"}
           /\ guidance.tone = IF "expression_tone" \in DOMAIN att
                              THEN att.expression_tone ELSE "natural"
           /\ guidance.share_self = IF "share_self_observations" \in DOMAIN att
                                    THEN att.share_self_observations ELSE FALSE

\* C32: in Phase 1 no vertex receives a field derived from a peer's vote:
\* Mirror's view is exactly {identity_state, self_model}, Compass's exactly
\* {identity_context}, Garden's and Ledger's are empty, whatever the global
\* context holds.
C32_NoPeerFieldsInPhase1 ==
    call.op = "phase1_contexts" =>
        \A name \in DOMAIN call.views :
            /\ DOMAIN call.views[name] =
                  CASE name = "mirror" -> {"identity_state", "self_model"}
                    [] name = "compass" -> {"identity_context"}
                    [] OTHER -> {}
            /\ DOMAIN call.views[name] \cap
                  {"ledger_context", "garden_context", "ledger_memories", "garden_patterns"} = {}
            /\ \A k \in DOMAIN call.views[name] : call.views[name][k] # "peer"

\* all four vertices registered, the global context holding every peer field
C32_Witness ==
    /\ call.op = "phase1_contexts"
    /\ DOMAIN call.views = {"ledger", "garden", "mirror", "compass"}
    /\ DOMAIN call.global_context = GlobalKeys
    /\ call.views["mirror"] = [identity_state |-> "given", self_model |-> "given"]
    /\ call.views["ledger"] = <<>>

\* C33: after n record_cycle calls the window holds the latest
\* min(n, window_size) snapshots, oldest evicted first, and cycle_count is n;
\* a DevelopmentLevel reports that number as snapshot_count and
\* min(1.0, snapshot_count / 50) as confidence (in hundredths).
C33_WindowAndConfidence ==
    LET n == Len(cycle_log)
        held == IF n <= window_size THEN n ELSE window_size
    IN /\ cycle_count = n
       /\ Len(snapshots) = held
       /\ snapshots = SubSeq(cycle_log, n - held + 1, n)
       /\ mon_ret.op = "get_development_level" =>
             /\ mon_ret.snapshot_count = held
             /\ mon_ret.confidence = IF 2 * held >= 100 THEN 100 ELSE 2 * held

\* one cycle more than the default window holds: full window, full confidence
C33_Witness ==
    /\ window_size = DefaultWindowSize
    /\ cycle_count = DefaultWindowSize + 1
    /\ Len(snapshots) = DefaultWindowSize
    /\ mon_ret.op = "get_development_level"
    /\ mon_ret.snapshot_count = DefaultWindowSize
    /\ mon_ret.confidence = 100

\* C34: once loaded, no validate_change, propose_change, apply_change,
\* check_drift or clear_pending call changes the invariants; flexible_regions
\* change only by applying a proposal that validates as approved; apply_change
\* touches only update_history, version and last_updated, and the other four
\* calls leave the identity state as it was.
C34_InvariantsImmutable ==
    [][(state.loaded /\ ret'.op # "load") =>
          /\ state'.loaded
          /\ state'.invariants = state.invariants
          /\ state'.repair_protocol = state.repair_protocol
          /\ state'.flexible_regions # state.flexible_regions =>
                /\ ret'.op = "apply_change"
                /\ validate_change(state, ret'.proposal).approved
          /\ ret'.op # "apply_change" => state' = state
      ]_vars

\* a change was applied to a loaded identity, which still has its invariants
C34_Witness ==
    /\ ret.op = "apply_change"
    /\ ret.success
    /\ state.update_history # <<>>
    /\ \E doc \in ScarDocs :
          /\ state.invariants = from_scar_json(doc).invariants
          /\ state.invariants # <<>>
          /\ state.flexible_regions = from_scar_json(doc).flexible_regions
    /\ drift_log # <<>>

C36_VersionCountsHistory ==
    /\ [](state.loaded =>
            \E doc \in ScarDocs :
                /\ state.invariants = from_scar_json(doc).invariants
                /\ state.flexible_regions = from_scar_json(doc).flexible_regions
                /\ IsDigits(LastSegment(state.version))
                /\ ParseInt(LastSegment(state.version)) =
                       ParseInt(LastSegment(doc.version)) + Len(state.update_history))
    /\ [][(ret'.op = "apply_change" /\ ~ret'.success) =>
              /\ state'.version = state.version
              /\ state'.update_history = state.update_history
              /\ state'.last_updated = state.last_updated
         ]_vars

\* an identity loaded at 1.0.8 stands at 1.0.10 after two applied changes, and
\* the apply_change that just returned failed
C36_Witness ==
    /\ state.loaded
    /\ ret.op = "apply_change"
    /\ ~ret.success
    /\ Len(state.update_history) = 2
    /\ state.version = Str(<<"1",".","0",".","1","0">>)

\* C37: apply_change succeeds exactly when an identity is loaded and the region
\* is a key of flexible_regions, whatever the region's mutable flag and whatever
\* validate_change says about the proposal; it leaves pending_proposals as they
\* were, and the queue gets shorter only by clear_pending.
C37_ApplyChecksRegionOnly ==
    [][/\ ret'.op = "apply_change" =>
             /\ ret'.success <=> (/\ state.loaded
                                  /\ ret'.proposal.region \in DOMAIN state.flexible_regions)
             /\ pending_proposals' = pending_proposals
       /\ Len(pending_proposals') < Len(pending_proposals) => ret'.op = "clear_pending"
      ]_vars

\* a change to a region that is not mutable, which validate_change rejects, was
\* applied, and a queued proposal that was applied too is still queued
C37_Witness ==
    /\ ret.op = "apply_change"
    /\ ret.success
    /\ ~validate_change(state, ret.proposal).approved
    /\ ~state.flexible_regions[ret.proposal.region].mutable
    /\ \E i \in 1..Len(state.update_history), j \in 1..Len(pending_proposals) :
          state.update_history[i].region = pending_proposals[j].region

\* the names in a report's affected_regions
Listed(report) == {report.affected_regions[i] : i \in 1..Len(report.affected_regions)}

\* C38 (as stated): a report of check_drift on a loaded identity has a non-empty
\* affected_regions exactly when needs_repair is true, and a signal is listed
\* exactly when its overshoot term of the deviation is positive.
C38_AffectedIffNeedsRepair ==
    Checked =>
        LET sig == ret.signals
            repair == state.repair_protocol
            report == ret.report
        IN /\ report.affected_regions # <<>> <=> report.needs_repair
           /\ "invariant_alignment" \in Listed(report)
                 <=> InvariantOvershoot(repair, sig.invariant_alignment) > 0
           /\ "identity_coherence" \in Listed(report)
                 <=> CoherenceOvershoot(repair, sig.coherence) > 0
           /\ "value_alignment" \in Listed(report)
                 <=> ValueOvershoot(repair, sig.value_misalignment) > 0
           /\ "relationship_integrity" \in Listed(report)
                 <=> RelationshipOvershoot(repair, sig.relationship_integrity) > 0

\* a check_now step, and the window it read
IsCheckNow == check_count' = check_count + 1
HasOrchestraVote == \E i \in 1..Len(recent_cycles) : "orchestra" \in DictKeys(recent_cycles[i].votes)

\* C39: on a loaded identity with the default thresholds, a check_now over a
\* window holding at least one cycle with an Orchestra vote reports needs_repair
\* with relationship_integrity among the affected regions, and adds one to the
\* failure counter the topology shares with every other caller of check_drift;
\* the alert is raised from the third failure in a row on, so the third of three
\* check_now calls in a row raises it, with or without a new cycle in between.
C39_OrchestraScoreKeepsRepairOn ==
    [][(IsCheckNow /\ state.loaded /\ HasOrchestraVote) =>
          /\ ret'.op = "check_drift"
          /\ ret'.signals.relationship_integrity <= 50
          /\ ret'.report.needs_repair
          /\ "relationship_integrity" \in Listed(ret'.report)
          /\ consecutive_repair_failures' = consecutive_repair_failures + 1
          /\ ret'.report.consecutive_failures = consecutive_repair_failures'
          /\ ret'.report.alert_ryan <=> consecutive_repair_failures' >= 3
      ]_vars

\* one cycle was recorded, three check_now calls followed, and the third
\* raised the alert
C39_Witness ==
    /\ state.loaded
    /\ Len(recent_cycles) = 1
    /\ HasOrchestraVote
    /\ check_count = 3
    /\ drift_log = <<TRUE, TRUE, TRUE>>
    /\ consecutive_repair_failures = 3
    /\ ret.op = "check_drift"
    /\ ret.report.alert_ryan

\* the tensions of a result that have Mirror on one side
MirrorTensions(r) ==
    {i \in 1..Len(r.tensions) :
        r.tensions[i].vertex_a = "mirror" \/ r.tensions[i].vertex_b = "mirror"}

\* C40: in a returned result whose Mirror vote proposes identity_repair, the
\* vote Orchestra produced has expression_tone reflective_concerned and
\* has_drift true, and every tension with Mirror on one side has the score
\* difference of its two votes plus 0.15, capped at 1.0, as its magnitude and
\* carries the identity-repair hint.
C40_DriftReachesToneAndTensions ==
    (/\ result.returned
     /\ "mirror" \in DictKeys(result.votes)
     /\ "identity_repair" \in ActionTypes(DictGet(result.votes, "mirror")))
    => /\ ("orchestra" \in DictKeys(result.votes)
           /\ ~IsErrorVote(DictGet(result.votes, "orchestra")))
          => LET att == DictGet(result.votes, "orchestra").attachments
             IN /\ att.expression_tone = "reflective_concerned"
                /\ att.has_drift
                /\ att.share_self_observations
       /\ \A i \in MirrorTensions(result) :
             LET t == result.tensions[i]
                 diff == Abs(DictGet(result.votes, t.vertex_a).score
                             - DictGet(result.votes, t.vertex_b).score)
             IN /\ t.magnitude = Min(100, diff + 15)
                /\ t.resolution_hint.identity_repair

\* a result whose Mirror reported drift, whose Orchestra answered with the
\* reflective tone although another vertex scored above 0.6, with one tension
\* of Mirror raised by 0.15 and another one capped at 1.0
C40_Witness ==
    /\ result.returned
    /\ DictKeys(result.votes) = VertexName
    /\ ~IsErrorVote(DictGet(result.votes, "orchestra"))
    /\ "identity_repair" \in ActionTypes(DictGet(result.votes, "mirror"))
    /\ DictGet(result.votes, "ledger").score > 60
    /\ DictGet(result.votes, "orchestra").attachments.expression_tone = "reflective_concerned"
    /\ \E i, j \in MirrorTensions(result) :
          /\ result.tensions[i].magnitude = 100
          /\ result.tensions[j].magnitude < 100
          /\ result.tensions[j].resolution_hint.identity_repair

====
